---------------------------- MODULE Spec2Model ----------------------------
(***************************************************************************)
(* Rate-card conversion (experiments/rate-card-conversion): the canonical *)
(* field catalog, the column mapper and the row transformer/validator.    *)
(*                                                                         *)
(* Text is modelled as a sequence of one-character strings, so that       *)
(* lower(), strip() and difflib's SequenceMatcher are computed on the     *)
(* characters.  A float score is the exact rational [n, d] it is rounded  *)
(* from; a confidence is an integer number of thousandths; any other      *)
(* number is an integer number of hundredths.                             *)
(***************************************************************************)
EXTENDS Integers, Sequences, FiniteSets, TLC

(***************************************************************************)
(* app/rag.py: the field catalog.  `text` is the character sequence of    *)
(* `name`.                                                                 *)
(***************************************************************************)
CANONICAL_FIELD_DEFS ==
  <<
    [name |-> "carrier_name",
     text |-> <<"c", "a", "r", "r", "i", "e", "r", "_", "n", "a", "m", "e">>,
     synonyms |-> << <<"c", "a", "r", "r", "i", "e", "r">>,
                     <<"v", "e", "n", "d", "o", "r">>,
                     <<"p", "r", "o", "v", "i", "d", "e", "r">> >>],
    [name |-> "lane_origin",
     text |-> <<"l", "a", "n", "e", "_", "o", "r", "i", "g", "i", "n">>,
     synonyms |-> << <<"o", "r", "i", "g", "i", "n">>,
                     <<"f", "r", "o", "m">>,
                     <<"o", "r", "i", "g", "i", "n", " ", "c", "i", "t", "y">>,
                     <<"p", "o", "l">> >>],
    [name |-> "lane_destination",
     text |-> <<"l", "a", "n", "e", "_", "d", "e", "s", "t", "i", "n", "a", "t", "i", "o", "n">>,
     synonyms |-> << <<"d", "e", "s", "t", "i", "n", "a", "t", "i", "o", "n">>,
                     <<"t", "o">>,
                     <<"d", "e", "s", "t">>,
                     <<"p", "o", "d">> >>],
    [name |-> "equipment_type",
     text |-> <<"e", "q", "u", "i", "p", "m", "e", "n", "t", "_", "t", "y", "p", "e">>,
     synonyms |-> << <<"e", "q", "u", "i", "p", "m", "e", "n", "t">>,
                     <<"c", "o", "n", "t", "a", "i", "n", "e", "r", " ", "t", "y", "p", "e">>,
                     <<"t", "r", "u", "c", "k", " ", "t", "y", "p", "e">> >>],
    [name |-> "service_level",
     text |-> <<"s", "e", "r", "v", "i", "c", "e", "_", "l", "e", "v", "e", "l">>,
     synonyms |-> << <<"s", "e", "r", "v", "i", "c", "e">>,
                     <<"p", "r", "i", "o", "r", "i", "t", "y">>,
                     <<"m", "o", "d", "e">> >>],
    [name |-> "currency",
     text |-> <<"c", "u", "r", "r", "e", "n", "c", "y">>,
     synonyms |-> << <<"c", "u", "r", "r">>,
                     <<"c", "c", "y">> >>],
    [name |-> "rate_value",
     text |-> <<"r", "a", "t", "e", "_", "v", "a", "l", "u", "e">>,
     synonyms |-> << <<"r", "a", "t", "e">>,
                     <<"b", "a", "s", "e", " ", "r", "a", "t", "e">>,
                     <<"p", "r", "i", "c", "e">>,
                     <<"a", "m", "o", "u", "n", "t">> >>],
    [name |-> "surcharge_fuel_pct",
     text |-> <<"s", "u", "r", "c", "h", "a", "r", "g", "e", "_", "f", "u", "e", "l", "_", "p", "c", "t">>,
     synonyms |-> << <<"f", "u", "e", "l">>,
                     <<"f", "s", "c">>,
                     <<"f", "u", "e", "l", " ", "s", "u", "r", "c", "h", "a", "r", "g", "e">> >>],
    [name |-> "min_charge",
     text |-> <<"m", "i", "n", "_", "c", "h", "a", "r", "g", "e">>,
     synonyms |-> << <<"m", "i", "n", "i", "m", "u", "m">>,
                     <<"m", "i", "n">>,
                     <<"m", "i", "n", " ", "c", "h", "a", "r", "g", "e">> >>],
    [name |-> "transit_days",
     text |-> <<"t", "r", "a", "n", "s", "i", "t", "_", "d", "a", "y", "s">>,
     synonyms |-> << <<"t", "r", "a", "n", "s", "i", "t">>,
                     <<"l", "e", "a", "d", " ", "t", "i", "m", "e">>,
                     <<"d", "a", "y", "s">> >>],
    [name |-> "effective_from",
     text |-> <<"e", "f", "f", "e", "c", "t", "i", "v", "e", "_", "f", "r", "o", "m">>,
     synonyms |-> << <<"e", "f", "f", "e", "c", "t", "i", "v", "e", " ", "f", "r", "o", "m">>,
                     <<"s", "t", "a", "r", "t", " ", "d", "a", "t", "e">>,
                     <<"v", "a", "l", "i", "d", " ", "f", "r", "o", "m">> >>],
    [name |-> "effective_to",
     text |-> <<"e", "f", "f", "e", "c", "t", "i", "v", "e", "_", "t", "o">>,
     synonyms |-> << <<"e", "f", "f", "e", "c", "t", "i", "v", "e", " ", "t", "o">>,
                     <<"e", "n", "d", " ", "d", "a", "t", "e">>,
                     <<"v", "a", "l", "i", "d", " ", "t", "o">>,
                     <<"e", "x", "p", "i", "r", "y">> >>],
    [name |-> "notes",
     text |-> <<"n", "o", "t", "e", "s">>,
     synonyms |-> << <<"r", "e", "m", "a", "r", "k">>,
                     <<"c", "o", "m", "m", "e", "n", "t">>,
                     <<"n", "o", "t", "e", "s">> >>]
  >>

NumFields == Len(CANONICAL_FIELD_DEFS)

FieldNames == {CANONICAL_FIELD_DEFS[i].name : i \in 1..NumFields}

(***************************************************************************)
(* str.lower() and str.strip() on character sequences.                    *)
(***************************************************************************)
LowerChar(c) ==
  CASE c = "A" -> "a" [] c = "B" -> "b" [] c = "C" -> "c" [] c = "D" -> "d"
    [] c = "E" -> "e" [] c = "F" -> "f" [] c = "G" -> "g" [] c = "H" -> "h"
    [] c = "I" -> "i" [] c = "J" -> "j" [] c = "K" -> "k" [] c = "L" -> "l"
    [] c = "M" -> "m" [] c = "N" -> "n" [] c = "O" -> "o" [] c = "P" -> "p"
    [] c = "Q" -> "q" [] c = "R" -> "r" [] c = "S" -> "s" [] c = "T" -> "t"
    [] c = "U" -> "u" [] c = "V" -> "v" [] c = "W" -> "w" [] c = "X" -> "x"
    [] c = "Y" -> "y" [] c = "Z" -> "z" [] OTHER -> c

Lower(s) == [i \in 1..Len(s) |-> LowerChar(s[i])]

UpperChar(c) ==
  CASE c = "a" -> "A" [] c = "b" -> "B" [] c = "c" -> "C" [] c = "d" -> "D"
    [] c = "e" -> "E" [] c = "f" -> "F" [] c = "g" -> "G" [] c = "h" -> "H"
    [] c = "i" -> "I" [] c = "j" -> "J" [] c = "k" -> "K" [] c = "l" -> "L"
    [] c = "m" -> "M" [] c = "n" -> "N" [] c = "o" -> "O" [] c = "p" -> "P"
    [] c = "q" -> "Q" [] c = "r" -> "R" [] c = "s" -> "S" [] c = "t" -> "T"
    [] c = "u" -> "U" [] c = "v" -> "V" [] c = "w" -> "W" [] c = "x" -> "X"
    [] c = "y" -> "Y" [] c = "z" -> "Z" [] OTHER -> c

\* str.upper(), for the headers written in capitals.
Upper(s) == [i \in 1..Len(s) |-> UpperChar(s[i])]

RECURSIVE LStrip(_)
LStrip(s) == IF s # <<>> /\ Head(s) = " " THEN LStrip(Tail(s)) ELSE s

RECURSIVE RStrip(_)
RStrip(s) ==
  IF s # <<>> /\ s[Len(s)] = " " THEN RStrip(SubSeq(s, 1, Len(s) - 1)) ELSE s

Strip(s) == RStrip(LStrip(s))

SetMax(S) == CHOOSE x \in S : \A y \in S : y <= x
SetMin(S) == CHOOSE x \in S : \A y \in S : x <= y

(***************************************************************************)
(* difflib.SequenceMatcher(None, a, b).ratio(), no junk: the longest      *)
(* matching block of the window (longest; then earliest in a; then        *)
(* earliest in b), then the windows to its left and to its right.         *)
(* Windows are 1-based with inclusive bounds.                              *)
(***************************************************************************)
RECURSIVE MatchLen(_, _, _, _, _, _)
MatchLen(a, b, i, j, ahi, bhi) ==
  IF i > ahi \/ j > bhi THEN 0
  ELSE IF a[i] # b[j] THEN 0
  ELSE 1 + MatchLen(a, b, i + 1, j + 1, ahi, bhi)

\* For every start <<i, j>> of the window, the length of the match from it.
MatchLens(a, b, alo, ahi, blo, bhi) ==
  [p \in (alo..ahi) \X (blo..bhi) |-> MatchLen(a, b, p[1], p[2], ahi, bhi)]

LongestSize(len) == SetMax({len[p] : p \in DOMAIN len})

EarliestInA(len, k) == SetMin({p[1] : p \in {q \in DOMAIN len : len[q] = k}})

EarliestInB(len, k, i) ==
  SetMin({p[2] : p \in {q \in DOMAIN len : q[1] = i /\ len[q] = k}})

BlockFrom(len, k, i) == <<i, EarliestInB(len, k, i), k>>

LongestBlock(len, k) == IF k = 0 THEN <<0, 0, 0>> ELSE BlockFrom(len, k, EarliestInA(len, k))

\* find_longest_match(alo, ahi, blo, bhi): <<i, j, k>> with
\* a[i..i+k-1] = b[j..j+k-1]; k = 0 when nothing matches (the position of an
\* empty match is not read).
find_longest_match(a, b, alo, ahi, blo, bhi) ==
  IF alo > ahi \/ blo > bhi THEN <<0, 0, 0>>
  ELSE LongestBlock(MatchLens(a, b, alo, ahi, blo, bhi),
                    LongestSize(MatchLens(a, b, alo, ahi, blo, bhi)))

\* Sum of the sizes of get_matching_blocks() over the window.
RECURSIVE MatchingSize(_, _, _, _, _, _)
RECURSIVE AroundBlock(_, _, _, _, _, _, _)
AroundBlock(a, b, alo, ahi, blo, bhi, m) ==
  IF m[3] = 0 THEN 0
  ELSE m[3]
       + MatchingSize(a, b, alo, m[1] - 1, blo, m[2] - 1)
       + MatchingSize(a, b, m[1] + m[3], ahi, m[2] + m[3], bhi)

MatchingSize(a, b, alo, ahi, blo, bhi) ==
  AroundBlock(a, b, alo, ahi, blo, bhi, find_longest_match(a, b, alo, ahi, blo, bhi))

\* ratio(): 2.0 * matches / length, and 1.0 when both are empty.
Ratio(a, b) ==
  IF Len(a) + Len(b) = 0 THEN [n |-> 1, d |-> 1]
  ELSE [n |-> 2 * MatchingSize(a, b, 1, Len(a), 1, Len(b)), d |-> Len(a) + Len(b)]

ScoreLess(x, y) == x.n * y.d < y.n * x.d
ScoreMax(x, y) == IF ScoreLess(x, y) THEN y ELSE x

\* round(x, 3) of the float nearest n/d, in thousandths (ties to even).
RoundHalfEven(q, r, d) ==
  IF 2 * r < d THEN q
  ELSE IF 2 * r > d THEN q + 1
  ELSE IF q % 2 = 0 THEN q ELSE q + 1

Round3(x) == RoundHalfEven((1000 * x.n) \div x.d, (1000 * x.n) % x.d, x.d)

(***************************************************************************)
(* app/rag.py: retrieve_field_candidates.                                  *)
(***************************************************************************)
\* max(SequenceMatcher(None, text, synonym).ratio()
\*     for synonym in (field.name, *field.synonyms))
RECURSIVE MaxRatio(_, _)
MaxRatio(text, syns) ==
  IF Len(syns) = 1 THEN Ratio(text, syns[1])
  ELSE ScoreMax(Ratio(text, Head(syns)), MaxRatio(text, Tail(syns)))

best_synonym_score(text, field) == MaxRatio(text, <<field.text>> \o field.synonyms)

ScoredField(text, field) == [field |-> field, score |-> best_synonym_score(text, field)]

Scored(text, fields) == [i \in 1..Len(fields) |-> ScoredField(text, fields[i])]

\* list.sort(key=score, reverse=True): stable, so equal scores keep their order.
InsertAt(sorted, x, ahead) ==
  SubSeq(sorted, 1, ahead) \o <<x>> \o SubSeq(sorted, ahead + 1, Len(sorted))

\* Variant of InsertDesc: an element goes ahead of those of equal score.
InsertDesc_AheadOfEquals(sorted, x) ==
  InsertAt(sorted, x,
           Cardinality({i \in 1..Len(sorted) : ScoreLess(x.score, sorted[i].score)}))

InsertDesc(sorted, x) ==
  InsertAt(sorted, x,
           Cardinality({i \in 1..Len(sorted) : ~ScoreLess(sorted[i].score, x.score)}))

RECURSIVE SortDesc(_)
SortDesc(s) ==
  IF Len(s) = 0 THEN <<>>
  ELSE InsertDesc(SortDesc(SubSeq(s, 1, Len(s) - 1)), s[Len(s)])

\* scored[:top_k]
Slice(list, top_k) == SubSeq(list, 1, IF top_k < Len(list) THEN top_k ELSE Len(list))

\* Variant of retrieve_field_candidates: the header is not lower-cased.
retrieve_field_candidates_CaseSensitive(column_name, top_k) ==
  Slice(SortDesc(Scored(Strip(column_name), CANONICAL_FIELD_DEFS)), top_k)

retrieve_field_candidates(column_name, top_k) ==
  Slice(SortDesc(Scored(Strip(Lower(column_name)), CANONICAL_FIELD_DEFS)), top_k)

(***************************************************************************)
(* The column headers the tables are built from.                          *)
(***************************************************************************)
H_Origin == <<"O", "r", "i", "g", "i", "n">>
H_From == <<"F", "r", "o", "m">>
H_Destination == <<"D", "e", "s", "t", "i", "n", "a", "t", "i", "o", "n">>
H_BaseRate == <<"B", "a", "s", "e", " ", "R", "a", "t", "e">>
H_PriceUSD == <<"P", "r", "i", "c", "e", " ", "U", "S", "D">>
H_Base == <<"B", "a", "s", "e">>
H_Carrier == <<"C", "a", "r", "r", "i", "e", "r">>
H_Foo == <<"F", "o", "o">>
H_ValidFrom == <<"V", "a", "l", "i", "d", " ", "F", "r", "o", "m">>
H_ValidTo == <<"V", "a", "l", "i", "d", " ", "T", "o">>
H_Fuel == <<"F", "u", "e", "l">>
H_Days == <<"D", "a", "y", "s">>
H_Currency == <<"C", "u", "r", "r", "e", "n", "c", "y">>
H_Po == <<"P", "o">>
H_FromCity == <<"F", "r", "o", "m", " ", "C", "i", "t", "y">>
H_ToPort == <<"T", "o", " ", "P", "o", "r", "t">>
H_FinalDest == <<"F", "i", "n", "a", "l", " ", "D", "e", "s", "t">>

\* Headers of the tables built from every ordering of a few columns.
MapHeaders ==
  {H_Origin, H_From, H_Destination, H_BaseRate, H_PriceUSD, H_Base, H_Carrier, H_Foo}

\* Headers that are a field's name, as written in the catalog and in capitals.
NameHeaders ==
  {CANONICAL_FIELD_DEFS[f].text : f \in 1..NumFields}
    \cup {Upper(CANONICAL_FIELD_DEFS[f].text) : f \in 1..NumFields}

HeaderPool ==
  MapHeaders \cup {H_ValidFrom, H_ValidTo, H_Fuel, H_Days, H_Currency, H_Po}
    \cup {H_FromCity, H_ToPort, H_FinalDest} \cup NameHeaders

\* candidates = retrieve_field_candidates(column, top_k=1), computed once per
\* header.
Top1Candidates == [h \in HeaderPool |-> retrieve_field_candidates(h, 1)]

(***************************************************************************)
(* app/mapping.py: _score_match and build_column_mapping.                  *)
(***************************************************************************)
_score_match(column, canonical) == Ratio(Lower(column), Lower(canonical))

\* mapping.py:27, the acceptance threshold 0.62, in thousandths.
AcceptThreshold == 620

\* confidence = round(max(rag_score, direct_score), 3), best = candidates[0]
ConfidenceOf(column, best) ==
  Round3(ScoreMax(best.score, _score_match(column, best.field.text)))

MappingEvidence(best_field, column, confidence) ==
  [canonical_field |-> best_field.name,
   source_column |-> column,
   confidence |-> confidence,
   strategy |-> "retrieval+string_similarity"]

\* Variant of SetItem: a key already present keeps its value.
SetItem_KeepFirst(dict, key, value) ==
  IF key \in DOMAIN dict THEN dict
  ELSE [k \in DOMAIN dict \cup {key} |-> IF k = key THEN value ELSE dict[k]]

\* column_map[key] = value
SetItem(dict, key, value) ==
  [k \in DOMAIN dict \cup {key} |-> IF k = key THEN value ELSE dict[k]]

\* Variant of Record: the new evidence entry goes to the front of the list.
Record_EvidenceFirst(acc, column, best_field, confidence) ==
  IF confidence >= AcceptThreshold
  THEN [column_map |-> SetItem(acc.column_map, best_field.name, column),
        evidence |-> <<MappingEvidence(best_field, column, confidence)>>
                       \o acc.evidence]
  ELSE acc

\* Variant of Record: the mapping is recorded whatever the confidence.
Record_NoThreshold(acc, column, best_field, confidence) ==
  [column_map |-> SetItem(acc.column_map, best_field.name, column),
   evidence |-> Append(acc.evidence,
                       MappingEvidence(best_field, column, confidence))]

\* Lines 27-37: the mapping is recorded when the confidence reaches 0.62.
Record(acc, column, best_field, confidence) ==
  IF confidence >= AcceptThreshold
  THEN [column_map |-> SetItem(acc.column_map, best_field.name, column),
        evidence |-> Append(acc.evidence,
                            MappingEvidence(best_field, column, confidence))]
  ELSE acc

\* best_field, rag_score = candidates[0] and the confidence, computed once per
\* header.
Confidences == [h \in HeaderPool |-> ConfidenceOf(h, Top1Candidates[h][1])]

\* One iteration of the loop over df.columns.
MapColumn(acc, column) ==
  Record(acc, column, Top1Candidates[column][1].field, Confidences[column])

EmptyDict == [k \in {} |-> <<>>]

RECURSIVE MapColumns(_, _)
MapColumns(acc, columns) ==
  IF Len(columns) = 0 THEN acc
  ELSE MapColumns(MapColumn(acc, Head(columns)), Tail(columns))

build_column_mapping(columns) ==
  MapColumns([column_map |-> EmptyDict, evidence |-> <<>>], columns)

(***************************************************************************)
(* Values of a table cell and of a transformed field, tagged by Python    *)
(* type: None, float NaN, str, a number (in hundredths), a datetime.date   *)
(* (as yyyymmdd) and pandas' NaT.                                          *)
(***************************************************************************)
NoneV == [t |-> "none"]
NaNV == [t |-> "nan"]
NaTV == [t |-> "nat"]
StrV(chars) == [t |-> "str", s |-> chars]
NumV(hundredths) == [t |-> "num", v |-> hundredths]
DateV(yyyymmdd) == [t |-> "date", d |-> yyyymmdd]

IsNone(x) == x.t = "none"

\* bool(x): None, "" and 0 are falsy; NaN, NaT and dates are truthy.
Truthy(x) ==
  CASE x.t = "none" -> FALSE
    [] x.t = "str" -> Len(x.s) > 0
    [] x.t = "num" -> x.v # 0
    [] OTHER -> TRUE

\* dict.get(key)
Get(dict, key) == IF key \in DOMAIN dict THEN dict[key] ELSE NoneV

Digits == {"0", "1", "2", "3", "4", "5", "6", "7", "8", "9"}

DigitVal(c) ==
  CASE c = "0" -> 0 [] c = "1" -> 1 [] c = "2" -> 2 [] c = "3" -> 3
    [] c = "4" -> 4 [] c = "5" -> 5 [] c = "6" -> 6 [] c = "7" -> 7
    [] c = "8" -> 8 [] c = "9" -> 9

RECURSIVE DigitsVal(_)
DigitsVal(s) ==
  IF Len(s) = 0 THEN 0
  ELSE 10 * DigitsVal(SubSeq(s, 1, Len(s) - 1)) + DigitVal(s[Len(s)])

AllDigits(s) == \A i \in 1..Len(s) : s[i] \in Digits

Without(s, drop) == SelectSeq(s, LAMBDA c : c \notin drop)

\* float(str) for decimal literals [sign] digits [. digits] with at most two
\* fraction digits (the literals the cells hold); NoneV stands for ValueError.
Hundredths(fp) == IF Len(fp) = 1 THEN 10 * DigitsVal(fp) ELSE DigitsVal(fp)

Decimal(ip, fp) ==
  IF AllDigits(ip) /\ AllDigits(fp) /\ Len(ip) + Len(fp) > 0 /\ Len(fp) <= 2
  THEN NumV(100 * DigitsVal(ip) + Hundredths(fp))
  ELSE NoneV

SplitAtDot(body, dots) ==
  IF dots = {} THEN Decimal(body, <<>>)
  ELSE IF Cardinality(dots) > 1 THEN NoneV
  ELSE Decimal(SubSeq(body, 1, SetMin(dots) - 1),
               SubSeq(body, SetMin(dots) + 1, Len(body)))

ParseUnsigned(body) == SplitAtDot(body, {i \in 1..Len(body) : body[i] = "."})

Negated(x) == IF IsNone(x) THEN x ELSE NumV(0 - x.v)

ParseSigned(s) ==
  IF Len(s) > 0 /\ Head(s) = "-" THEN Negated(ParseUnsigned(Tail(s)))
  ELSE IF Len(s) > 0 /\ Head(s) = "+" THEN ParseUnsigned(Tail(s))
  ELSE ParseUnsigned(s)

ParseFloat(str) == ParseSigned(Strip(str))

(***************************************************************************)
(* app/pipeline.py: _safe_float and _safe_int.                             *)
(***************************************************************************)
\* Lines 19-21, the string with "%" and "," removed and stripped.
FloatOfCleaned(v) == IF Len(v) = 0 THEN NoneV ELSE ParseFloat(v)

_safe_float(value) ==
  CASE value.t = "none" -> NoneV
    [] value.t = "nan" -> NoneV
    [] value.t = "str" -> FloatOfCleaned(Strip(Without(value.s, {"%", ","})))
    [] value.t = "num" -> value
    [] OTHER -> NoneV

\* int(number): truncation toward zero.
Trunc(number) ==
  IF IsNone(number) THEN NoneV
  ELSE NumV(IF number.v >= 0 THEN 100 * (number.v \div 100)
            ELSE 0 - 100 * ((0 - number.v) \div 100))

_safe_int(value) == Trunc(_safe_float(value))

(***************************************************************************)
(* app/validators.py: to_date_or_none.                                     *)
(***************************************************************************)
DaysInMonth(y, m) ==
  IF m \in {4, 6, 9, 11} THEN 30
  ELSE IF m = 2
       THEN (IF (y % 4 = 0 /\ y % 100 # 0) \/ y % 400 = 0 THEN 29 ELSE 28)
       ELSE 31

\* A pandas Timestamp's calendar date, NaT when there is no such day.
Timestamp(y, m, d) ==
  IF y >= 1678 /\ y <= 2261 /\ m >= 1 /\ m <= 12 /\ d >= 1 /\ d <= DaysInMonth(y, m)
  THEN DateV(10000 * y + 100 * m + d)
  ELSE NaTV

\* pd.to_datetime(value, errors="coerce").date() for a string: an ISO
\* yyyy-mm-dd literal is that date, text that is no date is NaT.
ParseDate(s) ==
  IF Len(s) = 10 /\ s[5] = "-" /\ s[8] = "-"
     /\ AllDigits(SubSeq(s, 1, 4)) /\ AllDigits(SubSeq(s, 6, 7))
     /\ AllDigits(SubSeq(s, 9, 10))
  THEN Timestamp(DigitsVal(SubSeq(s, 1, 4)), DigitsVal(SubSeq(s, 6, 7)),
                 DigitsVal(SubSeq(s, 9, 10)))
  ELSE NaTV

to_date_or_none(value) ==
  CASE value.t = "none" -> NoneV
    [] value.t = "nan" -> NoneV
    [] value.t = "str" ->
         IF Len(Strip(value.s)) = 0 THEN NoneV ELSE ParseDate(value.s)
    [] value.t = "num" ->
         \* a number is nanoseconds since the epoch
         DateV(IF value.v >= 0 THEN 19700101 ELSE 19691231)
    [] OTHER -> value

(***************************************************************************)
(* app/validators.py: validate_required_columns and enforce_row_quality.   *)
(* A warning string is the record of its fixed prefix (kind) and of what   *)
(* is formatted into it (detail).                                          *)
(***************************************************************************)
REQUIRED_CANONICAL_FIELDS == <<"lane_origin", "lane_destination", "rate_value">>

Warning(kind, detail) == [kind |-> kind, detail |-> detail]

MissingWarnings(missing) ==
  [i \in 1..Len(missing) |->
     Warning("Missing required canonical field mapping", missing[i])]

\* Variant of validate_required_columns: the fields are walked last to first.
validate_required_columns_Reversed(column_map) ==
  MissingWarnings(SelectSeq(<<"rate_value", "lane_destination", "lane_origin">>,
                            LAMBDA field : field \notin DOMAIN column_map))

validate_required_columns(column_map) ==
  MissingWarnings(SelectSeq(REQUIRED_CANONICAL_FIELDS,
                            LAMBDA field : field \notin DOMAIN column_map))

\* float(x) succeeds
FloatOk(x) ==
  CASE x.t = "num" -> TRUE
    [] x.t = "nan" -> TRUE
    [] x.t = "str" -> ~IsNone(ParseFloat(x.s))
    [] OTHER -> FALSE

FloatOf(x) == IF x.t = "str" THEN ParseFloat(x.s) ELSE x

\* Variant of Negative: zero counts as negative.
Negative_OrZero(value) == value.t = "num" /\ value.v <= 0

Negative(value) == value.t = "num" /\ value.v < 0

\* hasattr(x, "year"): datetime.date objects and NaT have it.
HasYear(x) == x.t \in {"date", "nat"}

Verdict(ok, reason) == [ok |-> ok, reason |-> reason, raised |-> "no"]

\* Variant of RangeCheck: equal dates count as inverted.
RangeCheck_NotBefore(from, to, lib) ==
  IF Truthy(from) /\ Truthy(to)
  THEN IF from.t = "date" /\ to.t = "date"
       THEN (IF from.d >= to.d
             THEN Verdict(FALSE, "effective_from is after effective_to")
             ELSE Verdict(TRUE, "None"))
       ELSE IF from.t # to.t /\ lib.nat_compare_raises
       THEN [ok |-> FALSE, reason |-> "None", raised |-> "TypeError"]
       ELSE Verdict(TRUE, "None")
  ELSE Verdict(TRUE, "None")

\* Lines 41-43.  lib.nat_compare_raises: whether the installed pandas raises
\* TypeError when NaT is ordered against a datetime.date, or answers False.
RangeCheck(from, to, lib) ==
  IF Truthy(from) /\ Truthy(to)
  THEN IF from.t = "date" /\ to.t = "date"
       THEN (IF from.d > to.d
             THEN Verdict(FALSE, "effective_from is after effective_to")
             ELSE Verdict(TRUE, "None"))
       ELSE IF from.t # to.t /\ lib.nat_compare_raises
       THEN [ok |-> FALSE, reason |-> "None", raised |-> "TypeError"]
       ELSE Verdict(TRUE, "None")
  ELSE Verdict(TRUE, "None")

\* Lines 37-45.
DateChecks(from, to, lib) ==
  IF ~IsNone(from) /\ ~HasYear(from) THEN Verdict(FALSE, "effective_from is invalid")
  ELSE IF ~IsNone(to) /\ ~HasYear(to) THEN Verdict(FALSE, "effective_to is invalid")
  ELSE RangeCheck(from, to, lib)

\* Variant of enforce_row_quality without the check of lines 29-30: float(None)
\* then fails in the try of lines 31-34.
enforce_row_quality_NoMissingCheck(row, lib) ==
  IF ~FloatOk(Get(row, "rate_value")) THEN Verdict(FALSE, "rate_value is not numeric")
  ELSE IF Negative(FloatOf(row["rate_value"]))
    THEN Verdict(FALSE, "rate_value must be non-negative")
  ELSE DateChecks(Get(row, "effective_from"), Get(row, "effective_to"), lib)

\* Variant of enforce_row_quality: the inverted range is looked for before the
\* sign of the rate.
enforce_row_quality_RangeFirst(row, lib) ==
  IF IsNone(Get(row, "rate_value")) THEN Verdict(FALSE, "Missing rate_value")
  ELSE IF ~FloatOk(row["rate_value"]) THEN Verdict(FALSE, "rate_value is not numeric")
  ELSE IF ~DateChecks(Get(row, "effective_from"), Get(row, "effective_to"), lib).ok
    THEN DateChecks(Get(row, "effective_from"), Get(row, "effective_to"), lib)
  ELSE IF Negative(FloatOf(row["rate_value"]))
    THEN Verdict(FALSE, "rate_value must be non-negative")
  ELSE Verdict(TRUE, "None")

enforce_row_quality(row, lib) ==
  IF IsNone(Get(row, "rate_value")) THEN Verdict(FALSE, "Missing rate_value")
  ELSE IF ~FloatOk(row["rate_value"]) THEN Verdict(FALSE, "rate_value is not numeric")
  ELSE IF Negative(FloatOf(row["rate_value"]))
    THEN Verdict(FALSE, "rate_value must be non-negative")
  ELSE DateChecks(Get(row, "effective_from"), Get(row, "effective_to"), lib)

(***************************************************************************)
(* app/schemas.py: CanonicalRateCardRow.model_validate.                    *)
(***************************************************************************)
OptionalStrFields == {"carrier_name", "equipment_type", "service_level", "notes"}

\* str | None = None
OptStrOk(value) == value.t \in {"none", "str"}
\* str, required
ReqStrOk(row, f) == f \in DOMAIN row /\ row[f].t = "str"
\* float, required, with its ge bound (in hundredths)
ReqNumOk(row, f, ge) == f \in DOMAIN row /\ row[f].t = "num" /\ row[f].v >= ge
\* float | None with its ge and le bounds (in hundredths; le < 0: no bound)
OptNumOk(value, ge, le) ==
  \/ IsNone(value)
  \/ value.t = "num" /\ value.v >= ge /\ (le < 0 \/ value.v <= le)
\* date | None.  lib.nat_validates: whether the installed pydantic takes NaT
\* (an instance of a datetime subclass) for a date.
OptDateOk(value, lib) ==
  \/ value.t \in {"none", "date"}
  \/ value.t = "nat" /\ lib.nat_validates

ModelValid(row, lib) ==
  /\ \A f \in OptionalStrFields : OptStrOk(Get(row, f))
  /\ ReqStrOk(row, "lane_origin")
  /\ ReqStrOk(row, "lane_destination")
  /\ ("currency" \notin DOMAIN row \/ row["currency"].t = "str")
  /\ ReqNumOk(row, "rate_value", 0)
  /\ OptNumOk(Get(row, "surcharge_fuel_pct"), 0, 10000)
  /\ OptNumOk(Get(row, "min_charge"), 0, -1)
  /\ OptNumOk(Get(row, "transit_days"), 0, -1)
  /\ OptDateOk(Get(row, "effective_from"), lib)
  /\ OptDateOk(Get(row, "effective_to"), lib)

USD == StrV(<<"U", "S", "D">>)

\* The validated model: every field, absent ones at their defaults.
CanonicalRateCardRow(row) ==
  [f \in FieldNames |-> IF f = "currency" /\ f \notin DOMAIN row THEN USD ELSE Get(row, f)]

(***************************************************************************)
(* app/pipeline.py: convert_dataframe.  A DataFrame is its ordered column  *)
(* headers and its rows, each row one cell per column.                     *)
(***************************************************************************)
OPTIONAL_FLOAT_FIELDS == {"surcharge_fuel_pct", "min_charge"}
OPTIONAL_INT_FIELDS == {"transit_days"}

ColumnIndex(columns, column) == CHOOSE i \in 1..Len(columns) : columns[i] = column

\* Lines 40-41: transformed[canonical_field] = src_row.get(source_column)
Copied(column_map, columns, src_row) ==
  [f \in DOMAIN column_map |-> src_row[ColumnIndex(columns, column_map[f])]]

\* Lines 43-51, on the copied dict.
Coerced(copied) ==
  [f \in DOMAIN copied \cup OPTIONAL_FLOAT_FIELDS \cup OPTIONAL_INT_FIELDS
           \cup {"rate_value", "effective_from", "effective_to", "currency"} |->
     CASE f \in OPTIONAL_FLOAT_FIELDS -> _safe_float(Get(copied, f))
       [] f \in OPTIONAL_INT_FIELDS -> _safe_int(Get(copied, f))
       [] f = "rate_value" -> _safe_float(Get(copied, f))
       [] f \in {"effective_from", "effective_to"} -> to_date_or_none(Get(copied, f))
       [] f = "currency" -> (IF Truthy(Get(copied, f)) THEN copied[f] ELSE USD)
       [] OTHER -> copied[f]]

Transform(column_map, columns, src_row) == Coerced(Copied(column_map, columns, src_row))

\* Variant of Judge: a rejected row is counted and no warning is appended.
Judge_NoWarning(acc, transformed, verdict, lib) ==
  IF verdict.raised # "no" THEN [acc EXCEPT !.raised = verdict.raised]
  ELSE IF ~verdict.ok
    THEN [acc EXCEPT !.rejected_rows = @ + 1]
  ELSE IF ~ModelValid(transformed, lib)
    THEN [acc EXCEPT !.raised = "ValidationError"]
  ELSE [acc EXCEPT !.rows = Append(@, CanonicalRateCardRow(transformed))]

\* Lines 53-59: a rejected row is counted and warned about, any other row is
\* validated and appended; an exception ends the call.
Judge(acc, transformed, verdict, lib) ==
  IF verdict.raised # "no" THEN [acc EXCEPT !.raised = verdict.raised]
  ELSE IF ~verdict.ok
    THEN [acc EXCEPT !.rejected_rows = @ + 1,
                     !.warnings = Append(@, Warning("Row rejected", verdict.reason))]
  ELSE IF ~ModelValid(transformed, lib)
    THEN [acc EXCEPT !.raised = "ValidationError"]
  ELSE [acc EXCEPT !.rows = Append(@, CanonicalRateCardRow(transformed))]

Validate(acc, transformed, lib) ==
  Judge(acc, transformed, enforce_row_quality(transformed, lib), lib)

\* One iteration of the loop over df.iterrows().
ConvertRow(acc, column_map, columns, src_row, lib) ==
  IF acc.raised # "no" THEN acc
  ELSE Validate(acc, Transform(column_map, columns, src_row), lib)

RECURSIVE ConvertRows(_, _, _, _, _)
ConvertRows(acc, column_map, columns, rows, lib) ==
  IF Len(rows) = 0 THEN acc
  ELSE ConvertRows(ConvertRow(acc, column_map, columns, Head(rows), lib),
                   column_map, columns, Tail(rows), lib)

LowConfidenceWarning(ev) ==
  Warning("Low-confidence mapping", <<ev.source_column, ev.canonical_field, ev.confidence>>)

\* Variant of LowConfidenceWarnings: a confidence equal to the threshold is
\* reported too.
RECURSIVE LowConfidenceWarnings_AtMost(_, _)
LowConfidenceWarnings_AtMost(evidence, threshold) ==
  IF Len(evidence) = 0 THEN <<>>
  ELSE (IF Head(evidence).confidence <= threshold
        THEN <<LowConfidenceWarning(Head(evidence))>> ELSE <<>>)
       \o LowConfidenceWarnings_AtMost(Tail(evidence), threshold)

\* Lines 61-66: the low-confidence warnings, in evidence order.
RECURSIVE LowConfidenceWarnings(_, _)
LowConfidenceWarnings(evidence, threshold) ==
  IF Len(evidence) = 0 THEN <<>>
  ELSE (IF Head(evidence).confidence < threshold
        THEN <<LowConfidenceWarning(Head(evidence))>> ELSE <<>>)
       \o LowConfidenceWarnings(Tail(evidence), threshold)

\* Lines 68-73, or the exception that ended the loop.
ConversionResponse(done, evidence, conf) ==
  IF done.raised # "no" THEN [status |-> "raised", error |-> done.raised]
  ELSE [status |-> "returned",
        rows |-> done.rows,
        mapping_evidence |-> evidence,
        rejected_rows |-> done.rejected_rows,
        warnings |-> done.warnings
                       \o LowConfidenceWarnings(evidence, conf.confidence_threshold)]

\* Lines 33-59 with the mapping result of line 32.
Convert(mapping_result, df, conf, lib) ==
  ConversionResponse(
    ConvertRows([rows |-> <<>>, rejected_rows |-> 0,
                 warnings |-> validate_required_columns(mapping_result.column_map),
                 raised |-> "no"],
                mapping_result.column_map, df.columns, df.rows, lib),
    mapping_result.evidence, conf)

convert_dataframe(df, conf, lib) == Convert(build_column_mapping(df.columns), df, conf, lib)

(***************************************************************************)
(* The tables.  A template is a column list with, per column, the cells a  *)
(* row may hold there; a table is one to MaxRows rows of a template.       *)
(***************************************************************************)
MaxRows == 2
MaxCols == 2

C_Busan == StrV(<<"B", "u", "s", "a", "n">>)
C_LA == StrV(<<"L", "A">>)
C_Empty == StrV(<<>>)
C_2500 == StrV(<<"2", "5", "0", "0">>)
C_1200 == StrV(<<"1", ",", "2", "0", "0">>)
C_Neg1 == StrV(<<"-", "1">>)
C_Zero == StrV(<<"0">>)
C_Abc == StrV(<<"a", "b", "c">>)
C_Jan == StrV(<<"2", "0", "2", "5", "-", "0", "1", "-", "0", "1">>)
C_Jun == StrV(<<"2", "0", "2", "5", "-", "0", "6", "-", "3", "0">>)
C_Dec == StrV(<<"2", "0", "2", "5", "-", "1", "2", "-", "3", "1">>)
C_NoDate == StrV(<<"n", "/", "a">>)
C_12Pct == StrV(<<"1", "2", "%">>)
C_150 == StrV(<<"1", "5", "0">>)
C_28 == StrV(<<"2", "8">>)
C_Neg3 == StrV(<<"-", "3">>)
C_EUR == StrV(<<"E", "U", "R">>)

Templates ==
  { [columns |-> <<H_Origin, H_Destination, H_BaseRate>>,
     cells |-> << {C_Busan, C_Empty, NaNV}, {C_LA},
                  {C_2500, C_Neg1, C_Zero, C_Abc} >>],
    [columns |-> <<H_Origin, H_Destination, H_BaseRate, H_ValidFrom, H_ValidTo>>,
     cells |-> << {C_Busan}, {C_LA}, {C_1200},
                  {C_Jan, C_Jun, C_Dec, C_NoDate, NaNV},
                  {C_Jun, C_NoDate, NaNV} >>],
    [columns |-> <<H_Origin, H_Destination, H_BaseRate, H_Fuel, H_Days>>,
     cells |-> << {C_Busan}, {C_LA}, {C_2500},
                  {C_12Pct, C_150, NaNV}, {C_28, C_Neg3, NaNV} >>],
    [columns |-> <<H_Origin, H_BaseRate>>,
     cells |-> << {C_Busan}, {C_2500, C_Neg1, C_Abc, NaNV} >>],
    [columns |-> <<H_Origin, H_Destination, H_PriceUSD>>,
     cells |-> << {C_Busan}, {C_LA}, {C_2500, C_Neg1} >>],
    [columns |-> <<H_Origin, H_Destination, H_BaseRate, H_Currency>>,
     cells |-> << {C_Busan}, {C_LA}, {C_2500}, {C_EUR, C_Empty, NaNV, NoneV} >>] }

\* The rows of a template: one cell of each column's set.
RECURSIVE RowsOf(_)
RowsOf(cells) ==
  IF Len(cells) = 0 THEN {<<>>}
  ELSE {<<c>> \o r : c \in Head(cells), r \in RowsOf(Tail(cells))}

RECURSIVE SeqsUpTo(_, _)
SeqsUpTo(S, n) ==
  IF n = 0 THEN {<<>>}
  ELSE SeqsUpTo(S, n - 1) \cup {Append(q, x) : q \in SeqsUpTo(S, n - 1), x \in S}

Injective(q) == \A i, j \in 1..Len(q) : i # j => q[i] # q[j]

TemplateTables ==
  UNION {{[columns |-> t.columns, rows |-> rs] :
            rs \in SeqsUpTo(RowsOf(t.cells), MaxRows) \ {<<>>}} : t \in Templates}

\* Every ordering of up to MaxCols distinct headers, with one row.
OrderTables ==
  UNION {{[columns |-> cols, rows |-> <<r>>] :
            r \in RowsOf([i \in 1..Len(cols) |-> {C_2500, NaNV}])} :
         cols \in {q \in SeqsUpTo(MapHeaders, MaxCols) : Len(q) > 0 /\ Injective(q)}}

Tables == TemplateTables \cup OrderTables

\* config.py:7, Settings.confidence_threshold, in thousandths.
DefaultConfidenceThreshold == 800

\* What the installed pandas and pydantic do with NaT.
Libs == [nat_compare_raises : BOOLEAN, nat_validates : BOOLEAN]

(***************************************************************************)
(* The state: one loaded table, the process settings, and what the two     *)
(* entry points returned for it.                                           *)
(***************************************************************************)
VARIABLES df, settings, mapping, response

\* The process-wide catalog, the frames of the calls two threads have in
\* flight, and the log of the calls that returned.
VARIABLES catalog, calls, log

\* What the hybrid agent returned for the loaded table, and what an entry
\* point answered for a file.
VARIABLES agent, request

\* The document pipeline: the committed job and rate-card tables, the files
\* under upload_dir, and the execute() runs in flight.
VARIABLES jobs, cards, disk, runs

\* What the last call of UploadDocumentUseCase.execute was given and gave.
VARIABLES upload

\* One call of retrieve_field_candidates, one call of enforce_row_quality, and
\* one call of AzureDocumentExtractor._poll_operation.
VARIABLES candidates, quality, poll

callVars == <<catalog, calls, log>>
agentVars == <<agent>>
entryVars == <<request>>
jobVars == <<jobs, cards, disk, runs, upload>>
rankVars == <<candidates, quality>>
pollVars == <<poll>>

vars ==
  <<df, settings, mapping, response, callVars, agentVars, entryVars, jobVars,
    rankVars, pollVars>>

\* What the actions of one part of the program leave alone.
besideCore == <<callVars, agentVars, entryVars, jobVars, rankVars, pollVars>>
besideCalls ==
  <<df, settings, mapping, response, agentVars, entryVars, jobVars, rankVars, pollVars>>
besideAgent ==
  <<df, settings, mapping, response, callVars, entryVars, jobVars, rankVars, pollVars>>
besideEntry ==
  <<df, settings, mapping, response, callVars, agentVars, jobVars, rankVars, pollVars>>
besideJobs ==
  <<df, settings, mapping, response, callVars, agentVars, entryVars, rankVars, pollVars>>
besideRank ==
  <<df, settings, mapping, response, callVars, agentVars, entryVars, jobVars, pollVars>>
besidePoll ==
  <<df, settings, mapping, response, callVars, agentVars, entryVars, jobVars, rankVars>>

Pending == [status |-> "pending"]

Threads == {"t1", "t2"}

IdleFrame == [pc |-> "idle"]

\* No call in flight, none returned, the catalog as rag.py defines it.
CallsIdle ==
  /\ catalog = CANONICAL_FIELD_DEFS
  /\ calls = [t \in Threads |-> IdleFrame]
  /\ log = <<>>

AgentIdle == agent = Pending

EntryIdle == request = Pending

JobIds == {"job-1", "job-2"}

Workers == {"w1", "w2"}

Absent == [status |-> "absent"]

\* No job uploaded, no rate card stored, no file written, no run in flight.
JobsIdle ==
  /\ jobs = [j \in JobIds |-> Absent]
  /\ cards = {}
  /\ disk = {}
  /\ runs = [w \in Workers |-> IdleFrame]
  /\ upload = Pending

RankIdle == candidates = Pending /\ quality = Pending

PollIdle == poll = IdleFrame

Init ==
  /\ df \in Tables
  /\ settings = [confidence_threshold |-> DefaultConfidenceThreshold]
  /\ mapping = Pending
  /\ response = Pending
  /\ CallsIdle
  /\ AgentIdle
  /\ EntryIdle
  /\ JobsIdle
  /\ RankIdle
  /\ PollIdle

BuildColumnMapping ==
  /\ mapping.status = "pending"
  /\ mapping' = [status |-> "returned"] @@ build_column_mapping(df.columns)
  /\ UNCHANGED <<df, settings, response>>
  /\ UNCHANGED besideCore

ConvertDataframe ==
  /\ response.status = "pending"
  /\ \E lib \in Libs : response' = convert_dataframe(df, settings, lib)
  /\ UNCHANGED <<df, settings, mapping>>
  /\ UNCHANGED besideCore

Next == BuildColumnMapping \/ ConvertDataframe

Spec == Init /\ [][Next]_vars

(***************************************************************************)
(* The same calls with the reporting threshold set from the environment    *)
(* (RCC_CONFIDENCE_THRESHOLD, config.py:12), on the tables that hold a     *)
(* column accepted below the default threshold.                            *)
(***************************************************************************)
Thresholds == {0, 714, DefaultConfidenceThreshold, 1000}

ThresholdTables ==
  {t \in Tables : \E c \in 1..Len(t.columns) : t.columns[c] = H_PriceUSD}

InitThreshold ==
  /\ df \in ThresholdTables
  /\ settings \in [confidence_threshold : Thresholds]
  /\ mapping = Pending
  /\ response = Pending
  /\ CallsIdle
  /\ AgentIdle
  /\ EntryIdle
  /\ JobsIdle
  /\ RankIdle
  /\ PollIdle

SpecThreshold == InitThreshold /\ [][Next]_vars

(***************************************************************************)
(* The same calls on tables with a header that is a field's name: alone,   *)
(* or beside one other header, in both orders.                             *)
(***************************************************************************)
NameCompanions == {H_Origin, H_Foo, H_BaseRate}

NameColumns ==
  {<<h>> : h \in NameHeaders}
    \cup {<<h, o>> : h \in NameHeaders, o \in NameCompanions}
    \cup {<<o, h>> : h \in NameHeaders, o \in NameCompanions}

NameTables ==
  {[columns |-> cols, rows |-> <<[i \in 1..Len(cols) |-> C_2500]>>] : cols \in NameColumns}

InitNames ==
  /\ df \in NameTables
  /\ settings = [confidence_threshold |-> DefaultConfidenceThreshold]
  /\ mapping = Pending
  /\ response = Pending
  /\ CallsIdle
  /\ AgentIdle
  /\ EntryIdle
  /\ JobsIdle
  /\ RankIdle
  /\ PollIdle

SpecNames == InitNames /\ [][Next]_vars

(***************************************************************************)
(* Calls in flight.  Two threads call build_column_mapping and             *)
(* convert_dataframe on their own tables; a call advances one loop         *)
(* iteration at a time, so the iterations of two calls interleave.  A      *)
(* frame holds the locals of one call: evidence and column_map             *)
(* (mapping.py:20-21), rows, rejected_rows and warnings                    *)
(* (pipeline.py:33-36).                                                    *)
(***************************************************************************)
MaxCalls == 3

T_Po == [columns |-> <<H_Po>>, rows |-> << <<C_2500>> >>]
T_Dest == [columns |-> <<H_Destination>>, rows |-> << <<C_LA>> >>]
T_Lane ==
  [columns |-> <<H_Origin, H_Destination, H_BaseRate>>,
   rows |-> << <<C_Busan, C_LA, C_2500>>, <<C_Busan, C_LA, C_Neg1>> >>]
T_Price == [columns |-> <<H_Destination, H_PriceUSD>>, rows |-> << <<C_LA, NaNV>> >>]

CallPool ==
  { [op |-> "build_column_mapping", df |-> T_Po],
    [op |-> "build_column_mapping", df |-> T_Dest],
    [op |-> "convert_dataframe", df |-> T_Lane],
    [op |-> "convert_dataframe", df |-> T_Price] }

\* The headers of the pool's tables and, computed once per header, the
\* scored list of rag.py:31-36 over the catalog rag.py defines.
CallHeaders == UNION {{c.df.columns[i] : i \in 1..Len(c.df.columns)} : c \in CallPool}

CallScores == [h \in CallHeaders |-> Scored(Strip(Lower(h)), CANONICAL_FIELD_DEFS)]

\* (field, best_synonym_score) of one field: a score depends on the header
\* and the field alone, so a field of the catalog takes it from CallScores.
ScoredFieldOf(column, field) ==
  IF \E j \in 1..NumFields : CallScores[column][j].field = field
  THEN CallScores[column][CHOOSE j \in 1..NumFields : CallScores[column][j].field = field]
  ELSE ScoredField(Strip(Lower(column)), field)

\* rag.py:31-36 over the catalog as it stands, in its order.
ScoredIn(cat, column) == [i \in 1..Len(cat) |-> ScoredFieldOf(column, cat[i])]

\* retrieve_field_candidates(column, top_k=1) over the catalog as it stands.
Candidates(cat, column) ==
  IF cat = CANONICAL_FIELD_DEFS THEN Top1Candidates[column]
  ELSE Slice(SortDesc(ScoredIn(cat, column)), 1)

SortedFields(sorted) == [i \in 1..Len(sorted) |-> sorted[i].field]

\* Variant of CatalogAfter: the catalog itself is sorted by the scores.
CatalogAfter_SortedInPlace(cat, column) == SortedFields(SortDesc(ScoredIn(cat, column)))

\* rag.py:31-37: scored is a new list and the sort is on it, so the catalog
\* is after the call what it was before.
CatalogAfter(cat, column) == cat

\* mapping.py:20-21 and the entry of the loop.
NewFrame(call) ==
  [pc |-> "columns", op |-> call.op, df |-> call.df, k |-> 0,
   mapped |-> [column_map |-> EmptyDict, evidence |-> <<>>],
   conv |-> [rows |-> <<>>, rejected_rows |-> 0, warnings |-> <<>>, raised |-> "no"]]

RecordBest(acc, column, best) == Record(acc, column, best.field, ConfidenceOf(column, best))

\* mapping.py:22-37 for the next column.
MapStepFrame(frame, cat, column) ==
  [frame EXCEPT !.k = @ + 1,
                !.mapped = RecordBest(@, column, Candidates(cat, column)[1])]

\* pipeline.py:33-36.
StartRows(frame) ==
  [frame EXCEPT !.pc = "rows", !.k = 0,
                !.conv = [rows |-> <<>>, rejected_rows |-> 0,
                          warnings |-> validate_required_columns(frame.mapped.column_map),
                          raised |-> "no"]]

\* pipeline.py:38-59 for the next row.
RowStepFrame(frame, lib) ==
  [frame EXCEPT !.k = @ + 1,
                !.conv = ConvertRow(@, frame.mapped.column_map, frame.df.columns,
                                    frame.df.rows[frame.k + 1], lib)]

\* Variant of RowStepFrames: warnings is one list shared by the calls.
RowStepFrames_SharedWarnings(frames, t, lib) ==
  [u \in DOMAIN frames |->
     IF u = t THEN RowStepFrame(frames[t], lib)
     ELSE IF frames[u].pc = "rows"
     THEN [frames[u] EXCEPT !.conv.warnings = RowStepFrame(frames[t], lib).conv.warnings]
     ELSE frames[u]]

\* The row iteration of thread t writes the locals of t's call alone.
RowStepFrames(frames, t, lib) == [frames EXCEPT ![t] = RowStepFrame(@, lib)]

\* mapping.py:38 and pipeline.py:61-73.
Result(frame) ==
  IF frame.op = "build_column_mapping" THEN [status |-> "returned"] @@ frame.mapped
  ELSE ConversionResponse(frame.conv, frame.mapped.evidence, settings)

Returns(frame) == [op |-> frame.op, df |-> frame.df, result |-> Result(frame)]

InFlight == Cardinality({t \in Threads : calls[t].pc # "idle"})

Call(t) ==
  /\ calls[t].pc = "idle"
  /\ Len(log) + InFlight < MaxCalls
  /\ \E c \in CallPool : calls' = [calls EXCEPT ![t] = NewFrame(c)]
  /\ UNCHANGED <<catalog, log>>
  /\ UNCHANGED besideCalls

MapStep(t) ==
  /\ calls[t].pc = "columns"
  /\ calls[t].k < Len(calls[t].df.columns)
  /\ calls' = [calls EXCEPT ![t] = MapStepFrame(@, catalog, @.df.columns[@.k + 1])]
  /\ catalog' = CatalogAfter(catalog, calls[t].df.columns[calls[t].k + 1])
  /\ UNCHANGED log
  /\ UNCHANGED besideCalls

MapReturn(t) ==
  /\ calls[t].pc = "columns"
  /\ calls[t].k = Len(calls[t].df.columns)
  /\ calls[t].op = "build_column_mapping"
  /\ log' = Append(log, Returns(calls[t]))
  /\ calls' = [calls EXCEPT ![t] = IdleFrame]
  /\ UNCHANGED catalog
  /\ UNCHANGED besideCalls

ValidateRequired(t) ==
  /\ calls[t].pc = "columns"
  /\ calls[t].k = Len(calls[t].df.columns)
  /\ calls[t].op = "convert_dataframe"
  /\ calls' = [calls EXCEPT ![t] = StartRows(@)]
  /\ UNCHANGED <<catalog, log>>
  /\ UNCHANGED besideCalls

RowStep(t) ==
  /\ calls[t].pc = "rows"
  /\ calls[t].k < Len(calls[t].df.rows)
  /\ calls[t].conv.raised = "no"
  /\ \E lib \in Libs : calls' = RowStepFrames(calls, t, lib)
  /\ UNCHANGED <<catalog, log>>
  /\ UNCHANGED besideCalls

ConvertReturn(t) ==
  /\ calls[t].pc = "rows"
  /\ calls[t].k = Len(calls[t].df.rows) \/ calls[t].conv.raised # "no"
  /\ log' = Append(log, Returns(calls[t]))
  /\ calls' = [calls EXCEPT ![t] = IdleFrame]
  /\ UNCHANGED catalog
  /\ UNCHANGED besideCalls

NoTable == [columns |-> <<>>, rows |-> <<>>]

InitCalls ==
  /\ df = NoTable
  /\ settings = [confidence_threshold |-> DefaultConfidenceThreshold]
  /\ mapping = Pending
  /\ response = Pending
  /\ CallsIdle
  /\ AgentIdle
  /\ EntryIdle
  /\ JobsIdle
  /\ RankIdle
  /\ PollIdle

NextCalls ==
  \E t \in Threads :
    \/ Call(t)
    \/ MapStep(t)
    \/ MapReturn(t)
    \/ ValidateRequired(t)
    \/ RowStep(t)
    \/ ConvertReturn(t)

SpecCalls == InitCalls /\ [][NextCalls]_vars

(***************************************************************************)
(* app/llm_gateway.py: the suggestion providers.                           *)
(***************************************************************************)
\* A value of type str | None that holds a field name.
Some(name) == [t |-> "str", name |-> name]

\* `sub in h` on two strings.
Contains(h, sub) ==
  \E i \in 0..(Len(h) - Len(sub)) : SubSeq(h, i + 1, i + Len(sub)) = sub

K_origin == <<"o", "r", "i", "g", "i", "n">>
K_dest == <<"d", "e", "s", "t">>
K_rate == <<"r", "a", "t", "e">>
K_price == <<"p", "r", "i", "c", "e">>
K_curr == <<"c", "u", "r", "r">>

\* Lines 34-45: the target the keyword matcher gives one header.
KeywordTarget(header) ==
  IF Contains(Lower(header), K_origin) THEN Some("lane_origin")
  ELSE IF Contains(Lower(header), K_dest) THEN Some("lane_destination")
  ELSE IF Contains(Lower(header), K_rate) \/ Contains(Lower(header), K_price)
    THEN Some("rate_value")
  ELSE IF Contains(Lower(header), K_curr) THEN Some("currency")
  ELSE NoneV

\* DeterministicFallbackProvider.map_headers: the dict it returns, as its
\* items in insertion order (the headers of a table are distinct).
map_headers(headers) ==
  [i \in 1..Len(headers) |->
     [source |-> headers[i], target |-> KeywordTarget(headers[i])]]

\* The provider classes: the three named ones inherit map_headers.
KeywordProvider(name) == [provider_name |-> name, kind |-> "keyword", answer |-> <<>>]
DeterministicFallbackProvider == KeywordProvider("deterministic-fallback")
OpenAIProvider == KeywordProvider("openai")
ClaudeProvider == KeywordProvider("claude")
GeminiProvider == KeywordProvider("gemini")

P_openai == <<"o", "p", "e", "n", "a", "i">>
P_OpenAI == <<"O", "p", "e", "n", "A", "I">>
P_claude == <<"c", "l", "a", "u", "d", "e">>
P_gemini == <<"g", "e", "m", "i", "n", "i">>
P_local == <<"l", "o", "c", "a", "l">>

ProviderConfig(provider) == [provider |-> provider, model |-> "gpt-4o-mini"]

\* Variant of build_provider: the named provider is built whatever the
\* environment holds.
build_provider_NoKeyTest(config, env) ==
  IF Lower(config.provider) = P_openai THEN OpenAIProvider
  ELSE IF Lower(config.provider) = P_claude THEN ClaudeProvider
  ELSE IF Lower(config.provider) = P_gemini THEN GeminiProvider
  ELSE DeterministicFallbackProvider

\* build_provider: a named provider needs its API key in the environment.
build_provider(config, env) ==
  IF Lower(config.provider) = P_openai /\ Truthy(env["OPENAI_API_KEY"])
    THEN OpenAIProvider
  ELSE IF Lower(config.provider) = P_claude /\ Truthy(env["ANTHROPIC_API_KEY"])
    THEN ClaudeProvider
  ELSE IF Lower(config.provider) = P_gemini /\ Truthy(env["GOOGLE_API_KEY"])
    THEN GeminiProvider
  ELSE DeterministicFallbackProvider

\* provider.map_headers(headers=..., sample_rows=...): a provider that is not
\* one of the classes above answers whatever it was built to answer.
MapHeadersOf(provider, headers) ==
  IF provider.kind = "keyword" THEN map_headers(headers) ELSE provider.answer

(***************************************************************************)
(* app/agentic_orchestrator.py: run_self_improving_mapping_agent.          *)
(***************************************************************************)
required == {"lane_origin", "lane_destination", "rate_value"}

ImprovementSuggestion(source, target, provider_name) ==
  [issue |-> [text |-> "Missing required field mapping", target |-> target],
   action |-> [text |-> "Mapped", source |-> source, target |-> target,
               provider |-> provider_name]]

\* Variant of Adopt: a missing field is filled whether required or not.
Adopt_AnyField(acc, item, provider_name) ==
  IF item.target.t = "str" /\ item.target.name \notin DOMAIN acc.improved_mapping
  THEN [acc EXCEPT
          !.improved_mapping = SetItem(@, item.target.name, item.source),
          !.suggestions = Append(@, ImprovementSuggestion(item.source,
                                      item.target.name, provider_name))]
  ELSE acc

\* Variant of Adopt: a required field is taken from the provider even when it
\* is already mapped.
Adopt_Overwrite(acc, item, provider_name) ==
  IF item.target.t = "str" /\ item.target.name \in required
  THEN [acc EXCEPT
          !.improved_mapping = SetItem(@, item.target.name, item.source),
          !.suggestions = Append(@, ImprovementSuggestion(item.source,
                                      item.target.name, provider_name))]
  ELSE acc

\* Lines 42-50: one iteration of the loop over llm_mapping.items().
Adopt(acc, item, provider_name) ==
  IF /\ item.target.t = "str"
     /\ item.target.name \in required
     /\ item.target.name \notin DOMAIN acc.improved_mapping
  THEN [acc EXCEPT
          !.improved_mapping = SetItem(@, item.target.name, item.source),
          !.suggestions = Append(@, ImprovementSuggestion(item.source,
                                      item.target.name, provider_name))]
  ELSE acc

RECURSIVE AdoptAll(_, _, _)
AdoptAll(acc, items, provider_name) ==
  IF Len(items) = 0 THEN acc
  ELSE AdoptAll(Adopt(acc, Head(items), provider_name), Tail(items), provider_name)

\* HybridAgentResult(initial_mapping, improved_mapping, suggestions)
run_self_improving_mapping_agent(table, provider) ==
  AdoptAll([initial_mapping |-> build_column_mapping(table.columns).column_map,
            improved_mapping |-> build_column_mapping(table.columns).column_map,
            suggestions |-> <<>>],
           MapHeadersOf(provider, table.columns),
           provider.provider_name)

(***************************************************************************)
(* The agent run on one table, with a provider built from the              *)
(* configuration or with any provider object handed in.                    *)
(***************************************************************************)
MaxItems == 2

TestColumns == <<H_FromCity, H_ToPort, H_PriceUSD>>

AgentColumns ==
  { TestColumns,
    <<H_Origin, H_Destination, H_BaseRate>>,
    <<H_Origin, H_BaseRate>>,
    <<H_FinalDest, H_PriceUSD>>,
    <<H_Foo>> }

AgentTables ==
  {[columns |-> cols, rows |-> <<[i \in 1..Len(cols) |-> C_1200]>>] :
     cols \in AgentColumns}

ProviderNames == {"openai", "claude", "gemini", "deterministic-fallback"}

Targets ==
  {NoneV, Some("lane_origin"), Some("lane_destination"), Some("rate_value"),
   Some("currency")}

\* What a provider may answer for a table: up to MaxItems items, on headers
\* of the table or on a header the table does not have, no header twice.
Answers(columns) ==
  {a \in SeqsUpTo([source : {columns[c] : c \in 1..Len(columns)} \cup {H_Carrier},
                   target : Targets], MaxItems) :
     \A i, j \in 1..Len(a) : i # j => a[i].source # a[j].source}

GivenProviders(columns) ==
  [provider_name : ProviderNames, kind : {"given"}, answer : Answers(columns)]

EnvKeys == {"OPENAI_API_KEY", "ANTHROPIC_API_KEY", "GOOGLE_API_KEY"}

\* os.getenv: unset, set to the empty string, or set to a key.
Envs == [EnvKeys -> {NoneV, StrV(<<>>), StrV(<<"s", "k">>)}]

ProviderConfigs ==
  {ProviderConfig(p) : p \in {P_openai, P_OpenAI, P_claude, P_gemini, P_local}}

\* An environment with no API key.
NoKeys == [k \in EnvKeys |-> NoneV]

AgentReturn(how, config, env, provider, result) ==
  [status |-> "returned", how |-> how, config |-> config, env |-> env,
   provider |-> provider, result |-> result]

\* run_self_improving_mapping_agent(df, provider) with a provider object.
RunAgent ==
  /\ agent.status = "pending"
  /\ \E provider \in GivenProviders(df.columns) :
       agent' = AgentReturn("given", ProviderConfig(<<>>), NoKeys, provider,
                            run_self_improving_mapping_agent(df, provider))
  /\ UNCHANGED besideAgent

\* preview_hybrid_agent: the provider comes from build_provider.
PreviewHybridAgent ==
  /\ agent.status = "pending"
  /\ \E config \in ProviderConfigs, env \in Envs :
       agent' = AgentReturn("built", config, env, build_provider(config, env),
                            run_self_improving_mapping_agent(
                              df, build_provider(config, env)))
  /\ UNCHANGED besideAgent

InitAgent ==
  /\ df \in AgentTables
  /\ settings = [confidence_threshold |-> DefaultConfidenceThreshold]
  /\ mapping = Pending
  /\ response = Pending
  /\ CallsIdle
  /\ AgentIdle
  /\ EntryIdle
  /\ JobsIdle
  /\ RankIdle
  /\ PollIdle

NextAgent == RunAgent \/ PreviewHybridAgent

SpecAgent == InitAgent /\ [][NextAgent]_vars

(***************************************************************************)
(* app/extractors.py: load_rate_card.  A file is a name and what the       *)
(* reader of its format finds in the bytes: a header row and body rows, or *)
(* nothing it can read.                                                    *)
(***************************************************************************)
\* s.split(".")[-1]: the text after the last dot, all of s without a dot.
RECURSIVE LastPart(_)
LastPart(s) ==
  IF Len(s) = 0 THEN <<>>
  ELSE IF \E i \in 1..Len(s) : s[i] = "."
    THEN LastPart(SubSeq(s, (CHOOSE i \in 1..Len(s) : s[i] = ".") + 1, Len(s)))
  ELSE s

E_csv == <<"c", "s", "v">>
E_txt == <<"t", "x", "t">>
E_xlsx == <<"x", "l", "s", "x">>
E_xlsm == <<"x", "l", "s", "m">>
E_xls == <<"x", "l", "s">>
E_pdf == <<"p", "d", "f">>

\* pd.isna on a cell.
IsNA(x) == x.t \in {"none", "nan", "nat"}

\* Lines 9-12: column names stripped, rows with no value at all dropped.
_normalize_dataframe(frame) ==
  [columns |-> [c \in 1..Len(frame.columns) |-> Strip(frame.columns[c])],
   rows |-> SelectSeq(frame.rows,
                      LAMBDA r : \E c \in 1..Len(r) : ~IsNA(r[c]))]

Loaded(frame) == [status |-> "loaded", df |-> frame]
LoadRaised(error) == [status |-> "raised", error |-> error]

load_rate_card(file, pdfplumber) ==
  IF LastPart(Lower(file.name)) \in {E_csv, E_txt, E_xlsx, E_xlsm, E_xls}
  THEN IF file.content.kind = "table"
       THEN Loaded(_normalize_dataframe(file.content.frame))
       ELSE LoadRaised("ParserError")
  ELSE IF LastPart(Lower(file.name)) = E_pdf
  THEN IF ~pdfplumber THEN LoadRaised("UnsupportedFormatError")
       ELSE IF file.content.kind # "table" THEN LoadRaised("UnsupportedFormatError")
       ELSE Loaded(_normalize_dataframe(file.content.frame))
  ELSE LoadRaised("UnsupportedFormatError")

\* DataFrame.empty: no row or no column.
Empty(frame) == Len(frame.rows) = 0 \/ Len(frame.columns) = 0

(***************************************************************************)
(* app/main.py and mcp_server/server.py: the two convert_rate_card.        *)
(***************************************************************************)
Answer(entry, file, loaded, converted, outcome) ==
  [status |-> "answered", entry |-> entry, file |-> file, loaded |-> loaded,
   converted |-> converted, outcome |-> outcome]

HTTPException(status_code, detail) ==
  [kind |-> "HTTPException", status_code |-> status_code, detail |-> detail]

Propagated(error) == [kind |-> "raised", error |-> error]

\* What convert_dataframe gave, as the entry point's outcome.
Converted(resp) ==
  IF resp.status = "returned" THEN [kind |-> "returned", response |-> resp]
  ELSE [kind |-> "raised", error |-> "convert_dataframe"]

\* main.py:17-27
HttpAnswer(file, loaded, conf, lib) ==
  IF loaded.status = "raised"
  THEN IF loaded.error = "UnsupportedFormatError"
       THEN Answer("http", file, loaded, FALSE, HTTPException(400, loaded.error))
       ELSE Answer("http", file, loaded, FALSE, Propagated(loaded.error))
  ELSE IF Empty(loaded.df)
  THEN Answer("http", file, loaded, FALSE,
              HTTPException(400, "No records found in input"))
  ELSE Answer("http", file, loaded, TRUE,
              Converted(convert_dataframe(loaded.df, conf, lib)))

\* server.py:32-39
McpAnswer(file, loaded, conf, lib) ==
  IF loaded.status = "raised"
  THEN Answer("mcp", file, loaded, FALSE, Propagated(loaded.error))
  ELSE Answer("mcp", file, loaded, TRUE,
              Converted(convert_dataframe(loaded.df, conf, lib)))

F_csv == <<"r", ".", "c", "s", "v">>
F_CSV == <<"R", ".", "C", "S", "V">>
F_xlsx == <<"r", ".", "x", "l", "s", "x">>
F_pdf == <<"r", ".", "p", "d", "f">>
F_doc == <<"r", ".", "d", "o", "c">>
F_bak == <<"r", ".", "c", "s", "v", ".", "b", "a", "k">>
F_bare == <<"r", "a", "t", "e", "s">>

FileNames == {F_csv, F_CSV, F_xlsx, F_pdf, F_doc, F_bak, F_bare}

H_OriginPadded == <<" ">> \o H_Origin \o <<" ">>

R_Good == <<C_Busan, C_LA, C_2500>>
R_NoRate == <<C_Busan, C_LA, NaNV>>
R_Blank == <<NaNV, NaNV, NaNV>>

\* What a reader finds: a frame of up to MaxRows rows, some of them blank,
\* or nothing.
Frames ==
  {[columns |-> <<H_OriginPadded, H_Destination, H_BaseRate>>, rows |-> rs] :
     rs \in SeqsUpTo({R_Good, R_NoRate, R_Blank}, MaxRows)}

Contents ==
  {[kind |-> "table", frame |-> f] : f \in Frames}
    \cup {[kind |-> "nothing", frame |-> NoTable]}

Files == [name : FileNames, content : Contents]

HttpConvertRateCard ==
  /\ request.status = "pending"
  /\ \E file \in Files, pdfplumber \in BOOLEAN, lib \in Libs :
       request' = HttpAnswer(file, load_rate_card(file, pdfplumber), settings, lib)
  /\ UNCHANGED besideEntry

McpConvertRateCard ==
  /\ request.status = "pending"
  /\ \E file \in Files, pdfplumber \in BOOLEAN, lib \in Libs :
       request' = McpAnswer(file, load_rate_card(file, pdfplumber), settings, lib)
  /\ UNCHANGED besideEntry

InitEntry ==
  /\ df = NoTable
  /\ settings = [confidence_threshold |-> DefaultConfidenceThreshold]
  /\ mapping = Pending
  /\ response = Pending
  /\ CallsIdle
  /\ AgentIdle
  /\ EntryIdle
  /\ JobsIdle
  /\ RankIdle
  /\ PollIdle

NextEntry == HttpConvertRateCard \/ McpConvertRateCard

SpecEntry == InitEntry /\ [][NextEntry]_vars

(***************************************************************************)
(* src/domain/entities/job.py: ProcessingJob.                              *)
(***************************************************************************)
\* ProcessingJob.create: a new job is PENDING, with no error and no card.
ProcessingJob_create(id, filename, file_format) ==
  [id |-> id, filename |-> filename, file_format |-> file_format,
   status |-> "pending", error_message |-> NoneV, rate_card_id |-> NoneV]

mark_processing(job) == [job EXCEPT !.status = "processing"]

\* Variant of mark_completed: the status is set and the rate card's id is not
\* recorded.
mark_completed_NoCard(job, rate_card_id) == [job EXCEPT !.status = "completed"]

mark_completed(job, rate_card_id) ==
  [job EXCEPT !.status = "completed", !.rate_card_id = Some(rate_card_id)]

mark_failed(job, error_message) ==
  [job EXCEPT !.status = "failed", !.error_message = error_message]

(***************************************************************************)
(* src/application/use_cases/upload_document.py                            *)
(***************************************************************************)
\* Path(filename).suffix: from the last dot on, empty without a dot.
Suffix(filename) ==
  IF \E i \in 2..Len(filename) : filename[i] = "."
  THEN <<".">> \o LastPart(filename) ELSE <<>>

S_pdf == <<".", "p", "d", "f">>
S_xlsx == <<".", "x", "l", "s", "x">>

\* _SUPPORTED_FORMATS
FormatOf(suffix) == IF suffix = S_pdf THEN "pdf" ELSE "excel"

U_xlsx == <<"r", ".", "x", "l", "s", "x">>
U_PDF == <<"r", ".", "P", "D", "F">>
U_csv == <<"r", ".", "c", "s", "v">>

UploadNames == {U_xlsx, U_PDF, U_csv}

StoredFile(job_id, filename) == [job_id |-> job_id, filename |-> filename]

\* Variant of _resolve_format: the suffix is compared as it is written.
_resolve_format_CaseSensitive(filename) ==
  IF Suffix(filename) \in {S_pdf, S_xlsx}
  THEN FormatOf(Suffix(filename)) ELSE "unsupported"

\* Lines 70-88; "unsupported" stands for the raise of
\* UnsupportedFileFormatError.
_resolve_format(filename) ==
  IF Suffix(Lower(filename)) \in {S_pdf, S_xlsx}
  THEN FormatOf(Suffix(Lower(filename))) ELSE "unsupported"

UploadRaised(filename, type) ==
  [status |-> "raised", filename |-> filename, type |-> type]

UploadReturned(filename, job_id) ==
  [status |-> "returned", filename |-> filename, job_id |-> job_id]

\* UploadDocumentUseCase.execute under a fresh uuid j, and the commit of the
\* request's session: the file is written, then the job is saved; either
\* may fail with StorageError.
Upload(j) ==
  /\ jobs[j] = Absent
  /\ \A f \in disk : f.job_id # j
  /\ \E filename \in UploadNames, written \in BOOLEAN, saved \in BOOLEAN :
       IF _resolve_format(filename) = "unsupported"
       THEN /\ upload' = UploadRaised(filename, "UnsupportedFileFormatError")
            /\ UNCHANGED <<jobs, disk>>
       ELSE IF ~written
       THEN /\ upload' = UploadRaised(filename, "StorageError")
            /\ UNCHANGED <<jobs, disk>>
       ELSE /\ disk' = disk \cup {StoredFile(j, filename)}
            /\ IF saved
               THEN /\ jobs' = [jobs EXCEPT ![j] = ProcessingJob_create(
                                  j, filename, _resolve_format(filename))]
                    /\ upload' = UploadReturned(filename, j)
               ELSE /\ upload' = UploadRaised(filename, "StorageError")
                    /\ UNCHANGED jobs
  /\ UNCHANGED <<cards, runs>>
  /\ UNCHANGED besideJobs

(***************************************************************************)
(* src/application/use_cases/process_document.py: one execute(job_id) per  *)
(* worker, stepping from await to await.  A run holds its job entity, what *)
(* its session has flushed and not committed, and the exception on its way *)
(* to the caller.                                                          *)
(***************************************************************************)
NoCard == [id |-> "none", job_id |-> "none"]

NoExc == [type |-> "none", text |-> "none"]

Exc(type, text) == [type |-> type, text |-> text]

\* str(exc), with the prefix the handler of unexpected exceptions adds.
Message(prefix, text) == [t |-> "str", prefix |-> prefix, text |-> text]

CardIdOf == [w \in Workers |-> IF w = "w1" THEN "card-1" ELSE "card-2"]

\* RateCard.create(job_id=job.id, ...)
RateCard_create(id, job_id) == [id |-> id, job_id |-> job_id]

RunFrame(pc, job, flushed, pending_cards, rate_card, exc, outcome) ==
  [pc |-> pc, job_id |-> job.id, job |-> job, flushed |-> flushed,
   pending_cards |-> pending_cards, rate_card |-> rate_card, exc |-> exc,
   outcome |-> outcome]

\* execute(job_id) raised before it had a job.
NotStarted(j, type) ==
  [pc |-> "done", job_id |-> j, job |-> Absent, flushed |-> Absent,
   pending_cards |-> {}, rate_card |-> NoCard, exc |-> Exc(type, "start"),
   outcome |-> "raised"]

\* Lines 99 and 119-138: get_by_id, mark_processing, update_status.
LoadAndStart(w, j) ==
  /\ runs[w].pc = "idle"
  /\ \E flushes \in BOOLEAN :
       runs' = [runs EXCEPT ![w] =
         IF jobs[j] = Absent THEN NotStarted(j, "JobNotFoundError")
         ELSE IF ~flushes THEN NotStarted(j, "StorageError")
         ELSE RunFrame("started", mark_processing(jobs[j]),
                       mark_processing(jobs[j]), {}, NoCard, NoExc, "none")]
  /\ UNCHANGED <<jobs, cards, disk, upload>>
  /\ UNCHANGED besideJobs

\* What can go wrong in _run_pipeline, stage by stage.
PipelineFailures ==
  {Exc("StorageError", "read"), Exc("DocumentExtractionError", "extract"),
   Exc("Exception", "extract"), Exc("LLMMappingError", "map"),
   Exc("Exception", "map"), Exc("StorageError", "save")}

Failing(frame, exc) == [frame EXCEPT !.pc = "failing", !.exc = exc]

\* The frame after rate_card_repo.save(rate_card) flushed the card.
Saved(frame, rate_card) ==
  [frame EXCEPT !.pc = "saved", !.rate_card = rate_card,
                !.pending_cards = {rate_card}]

\* Lines 140-154: read the file, extract, map, RateCard.create, save.
RunPipeline(w) ==
  /\ runs[w].pc = "started"
  /\ \/ /\ StoredFile(runs[w].job.id, runs[w].job.filename) \in disk
        /\ runs' = [runs EXCEPT ![w] =
             Saved(runs[w], RateCard_create(CardIdOf[w], runs[w].job.id))]
     \/ \E exc \in PipelineFailures :
          runs' = [runs EXCEPT ![w] = Failing(runs[w], exc)]
  /\ UNCHANGED <<jobs, cards, disk, upload>>
  /\ UNCHANGED besideJobs

\* session.commit(): what the session flushed becomes the stored state.
Commit(frame) ==
  /\ jobs' = [jobs EXCEPT ![frame.job_id] = frame.flushed]
  /\ cards' = cards \cup frame.pending_cards

\* job_repo.update_status(job): the session holds the entity's row.
Flushed(frame) == [frame EXCEPT !.flushed = frame.job]

\* session.rollback(), as a failed commit does.
RolledBack(frame) == [frame EXCEPT !.flushed = Absent, !.pending_cards = {}]

\* The run is over and its session closed.
Done(frame, outcome) ==
  [frame EXCEPT !.pc = "done", !.outcome = outcome, !.flushed = Absent,
                !.pending_cards = {}]

\* job.mark_completed(rate_card_id=rate_card.id) on the run's entity.
MarkedCompleted(frame) ==
  [frame EXCEPT !.job = mark_completed(frame.job, frame.rate_card.id)]

\* Lines 103-107: mark_completed, update_status, commit, return.
Complete(w) ==
  /\ runs[w].pc = "saved"
  /\ \/ /\ Commit(Flushed(MarkedCompleted(runs[w])))
        /\ runs' = [runs EXCEPT ![w] = Done(MarkedCompleted(runs[w]), "returned")]
     \/ /\ runs' = [runs EXCEPT ![w] =
             Failing(MarkedCompleted(runs[w]), Exc("StorageError", "update"))]
        /\ UNCHANGED <<jobs, cards>>
     \/ /\ \E kept \in BOOLEAN :
             runs' = [runs EXCEPT ![w] =
               Failing(IF kept THEN Flushed(MarkedCompleted(runs[w]))
                       ELSE RolledBack(MarkedCompleted(runs[w])),
                       Exc("Exception", "commit"))]
        /\ UNCHANGED <<jobs, cards>>
  /\ UNCHANGED <<disk, upload>>
  /\ UNCHANGED besideJobs

\* Lines 109-117: what the handler of the exception passes as str(exc).
ErrorMessage(exc) ==
  IF exc.type = "Exception"
  THEN Message("Unexpected error during processing: ", exc.text)
  ELSE Message("", exc.text)

\* job.mark_failed(error_message=error_message) on the run's entity.
MarkedFailed(frame) ==
  [frame EXCEPT !.job = mark_failed(frame.job, ErrorMessage(frame.exc))]

\* Lines 213-236: mark_failed, then update_status and commit, whose failure
\* is logged and swallowed; the exception then leaves execute and the session
\* closes.
HandlePipelineFailure(w) ==
  /\ runs[w].pc = "failing"
  /\ \/ Commit(Flushed(MarkedFailed(runs[w])))
     \/ UNCHANGED <<jobs, cards>>
  /\ runs' = [runs EXCEPT ![w] = Done(MarkedFailed(runs[w]), "raised")]
  /\ UNCHANGED <<disk, upload>>
  /\ UNCHANGED besideJobs

InitJobs ==
  /\ df = NoTable
  /\ settings = [confidence_threshold |-> DefaultConfidenceThreshold]
  /\ mapping = Pending
  /\ response = Pending
  /\ CallsIdle
  /\ AgentIdle
  /\ EntryIdle
  /\ JobsIdle
  /\ RankIdle
  /\ PollIdle

NextJobs ==
  \/ \E j \in JobIds : Upload(j)
  \/ \E w \in Workers, j \in JobIds : LoadAndStart(w, j)
  \/ \E w \in Workers :
       \/ RunPipeline(w)
       \/ Complete(w)
       \/ HandlePipelineFailure(w)

SpecJobs == InitJobs /\ [][NextJobs]_vars

(***************************************************************************)
(* retrieve_field_candidates called on its own, on a header and a top_k.   *)
(***************************************************************************)
RetrievePool == {H_Po, H_Origin, H_PriceUSD, H_Foo, H_ToPort, H_Days}

\* top_k from none to one more than the catalog holds.
MaxTopK == NumFields + 1

RetrieveCall(column_name, top_k) ==
  [status |-> "pending", column_name |-> column_name, top_k |-> top_k]

RetrieveFieldCandidates ==
  /\ candidates.status = "pending"
  /\ candidates' =
       [status |-> "returned", column_name |-> candidates.column_name,
        top_k |-> candidates.top_k,
        result |-> retrieve_field_candidates(candidates.column_name,
                                             candidates.top_k)]
  /\ UNCHANGED quality
  /\ UNCHANGED besideRank

InitRetrieve ==
  /\ df = NoTable
  /\ settings = [confidence_threshold |-> DefaultConfidenceThreshold]
  /\ mapping = Pending
  /\ response = Pending
  /\ CallsIdle
  /\ AgentIdle
  /\ EntryIdle
  /\ JobsIdle
  /\ candidates \in {RetrieveCall(h, k) : h \in RetrievePool, k \in 0..MaxTopK}
  /\ quality = Pending
  /\ PollIdle

NextRetrieve == RetrieveFieldCandidates

SpecRetrieve == InitRetrieve /\ [][NextRetrieve]_vars

(***************************************************************************)
(* enforce_row_quality on its own and inside convert_dataframe             *)
(* (validators.py:27-45, pipeline.py:38-57): tables whose rows break       *)
(* several of the checks at once, and row dicts as a direct caller may     *)
(* hand them over, date fields of every type included.                     *)
(***************************************************************************)
QualityTemplate ==
  [columns |-> <<H_Origin, H_Destination, H_BaseRate, H_ValidFrom, H_ValidTo>>,
   cells |-> << {C_Busan}, {C_LA}, {C_2500, C_Neg1, C_Abc},
                {C_Jan, C_Dec, C_NoDate}, {C_Jun} >>]

QualityTables ==
  {[columns |-> QualityTemplate.columns, rows |-> rs] :
     rs \in SeqsUpTo(RowsOf(QualityTemplate.cells), MaxRows) \ {<<>>}}

QualityRates == {NoneV, NumV(250000), NumV(-100), C_Abc, NaNV}

QualityDates == {NoneV, DateV(20250101), DateV(20251231), C_NoDate, NaTV}

QualityRows ==
  [rate_value : QualityRates, effective_from : QualityDates,
   effective_to : QualityDates]

QualityCall(row) == [status |-> "pending", row |-> row]

\* One call of enforce_row_quality(row); the comparison of a date with NaT
\* on line 44 raises or answers False, as the installed pandas decides.
EnforceRowQuality ==
  /\ quality.status = "pending"
  /\ "row" \in DOMAIN quality
  /\ \E lib \in Libs :
       quality' =
         [status |-> "returned", row |-> quality.row,
          verdict |-> enforce_row_quality(quality.row, lib)]
  /\ UNCHANGED candidates
  /\ UNCHANGED besideRank

InitQuality ==
  /\ \/ df \in QualityTables /\ quality = Pending
     \/ df = NoTable /\ quality \in {QualityCall(row) : row \in QualityRows}
  /\ settings = [confidence_threshold |-> DefaultConfidenceThreshold]
  /\ mapping = Pending
  /\ response = Pending
  /\ CallsIdle
  /\ AgentIdle
  /\ EntryIdle
  /\ JobsIdle
  /\ candidates = Pending
  /\ PollIdle

NextQuality == ConvertDataframe \/ EnforceRowQuality

SpecQuality == InitQuality /\ [][NextQuality]_vars

(***************************************************************************)
(* AzureDocumentExtractor._poll_operation (azure_extractor.py:132-164):    *)
(* one coroutine that sleeps, asks the operation URL for its status and    *)
(* looks at the answer, up to _MAX_POLL_ATTEMPTS times.  A frame counts    *)
(* the requests sent and remembers the statuses answered so far.           *)
(***************************************************************************)
\* azure_extractor.py:31.
_MAX_POLL_ATTEMPTS == 30

\* What data.get("status", "") can be: the two terminal words, two of the
\* service's other words, and "" for a body without a status.
PollStatuses == {"succeeded", "failed", "running", "notStarted", ""}

\* What one client.get can come to: a JSON body with a status, with or
\* without an analyzeResult, or an exception of httpx or of response.json().
PollReplies ==
  [kind : {"json"}, status : PollStatuses, analyzeResult : {"tables"}]
    \cup {[kind |-> "json", status |-> "succeeded", analyzeResult |-> "absent"],
          [kind |-> "error", status |-> "none", analyzeResult |-> "absent"]}

Polling(requests, seen, last) ==
  [pc |-> "polling", requests |-> requests, seen |-> seen, last |-> last]

PollDone(requests, seen, last, outcome) ==
  [pc |-> "done", requests |-> requests, seen |-> seen, last |-> last,
   outcome |-> outcome]

PollReturned(value) == [how |-> "returned", value |-> value]

PollRaised(type, text) == [how |-> "raised", type |-> type, text |-> text]

\* Variant of AfterReply: a "failed" status is treated like any other
\* unfinished status.
AfterReply_FailedGoesOn(frame, reply) ==
  IF reply.kind = "error"
  THEN PollDone(frame.requests + 1, frame.seen, "none",
                PollRaised("RequestError", "request"))
  ELSE IF reply.status = "succeeded"
  THEN PollDone(frame.requests + 1, frame.seen \cup {reply.status}, reply.status,
                PollReturned(IF reply.analyzeResult = "absent" THEN "empty"
                             ELSE reply.analyzeResult))
  ELSE IF frame.requests + 1 = _MAX_POLL_ATTEMPTS
  THEN PollDone(frame.requests + 1, frame.seen \cup {reply.status}, reply.status,
                PollRaised("DocumentExtractionError", "timed out"))
  ELSE Polling(frame.requests + 1, frame.seen \cup {reply.status}, reply.status)

\* Lines 151-164: one pass of the loop body after the request was answered,
\* and the raise after the loop when that pass was the last one.
AfterReply(frame, reply) ==
  IF reply.kind = "error"
  THEN PollDone(frame.requests + 1, frame.seen, "none",
                PollRaised("RequestError", "request"))
  ELSE IF reply.status = "succeeded"
  THEN PollDone(frame.requests + 1, frame.seen \cup {reply.status}, reply.status,
                PollReturned(IF reply.analyzeResult = "absent" THEN "empty"
                             ELSE reply.analyzeResult))
  ELSE IF reply.status = "failed"
  THEN PollDone(frame.requests + 1, frame.seen \cup {reply.status}, reply.status,
                PollRaised("DocumentExtractionError", "analysis failed"))
  ELSE IF frame.requests + 1 = _MAX_POLL_ATTEMPTS
  THEN PollDone(frame.requests + 1, frame.seen \cup {reply.status}, reply.status,
                PollRaised("DocumentExtractionError", "timed out"))
  ELSE Polling(frame.requests + 1, frame.seen \cup {reply.status}, reply.status)

\* Lines 146-148: the call opens the client and enters the loop.
StartPoll ==
  /\ poll.pc = "idle"
  /\ poll' = Polling(0, {}, "none")
  /\ UNCHANGED besidePoll

\* Lines 149-162: sleep, one GET, and what the answer leads to.
PollOnce ==
  /\ poll.pc = "polling"
  /\ \E reply \in PollReplies : poll' = AfterReply(poll, reply)
  /\ UNCHANGED besidePoll

InitPoll ==
  /\ df = NoTable
  /\ settings = [confidence_threshold |-> DefaultConfidenceThreshold]
  /\ mapping = Pending
  /\ response = Pending
  /\ CallsIdle
  /\ AgentIdle
  /\ EntryIdle
  /\ JobsIdle
  /\ RankIdle
  /\ PollIdle

NextPoll == StartPoll \/ PollOnce

\* The event loop resumes the coroutine after every sleep, and every request
\* ends within the client's timeout of 30 seconds (line 147).
SpecPoll == InitPoll /\ [][NextPoll]_vars /\ WF_vars(NextPoll)

\* A run that was started goes on: the event loop resumes the background task
\* after every await, and each awaited call returns or raises.
SpecJobsFair ==
  /\ InitJobs
  /\ [][NextJobs]_vars
  /\ \A w \in Workers :
       /\ WF_vars(RunPipeline(w))
       /\ WF_vars(Complete(w))
       /\ WF_vars(HandlePipelineFailure(w))

(***************************************************************************)
(* What the claims read off a state.                                       *)
(***************************************************************************)
Returned == response.status = "returned"
Raised == response.status = "raised"
Mapped == mapping.status = "returned"

NumRows == Len(df.rows)
RowIds == 1..NumRows

\* The column map and the transformed dict of input row i, as the pipeline
\* computes them for the loaded table.
ColumnMapOf == build_column_mapping(df.columns).column_map
TransformedRow(i) == Transform(ColumnMapOf, df.columns, df.rows[i])

\* The cell of row i under the column mapped to a field; None when unmapped.
CellOf(i, field) ==
  IF field \in DOMAIN ColumnMapOf
  THEN df.rows[i][ColumnIndex(df.columns, ColumnMapOf[field])]
  ELSE NoneV

\* The verdict on row i where ordering NaT against a date does not raise.
QuietLib == [nat_compare_raises |-> FALSE, nat_validates |-> FALSE]
VerdictOf(i) == enforce_row_quality(TransformedRow(i), QuietLib)

WarningIds(kind) ==
  {j \in 1..Len(response.warnings) : response.warnings[j].kind = kind}

RejectedWith(reason) ==
  Cardinality({j \in WarningIds("Row rejected") : response.warnings[j].detail = reason})

\* The parsed rate of row i, None when missing or not a number.
RateOf(i) == _safe_float(CellOf(i, "rate_value"))
RateMissing(i) == IsNone(RateOf(i))
RateNegative(i) == ~RateMissing(i) /\ RateOf(i).v < 0
RateFine(i) == ~RateMissing(i) /\ RateOf(i).v >= 0

\* A date cell is empty, a well-formed date, or text that is no date.
DateEmpty(i, field) == IsNone(to_date_or_none(CellOf(i, field)))
DateWellFormed(i, field) == to_date_or_none(CellOf(i, field)).t = "date"
DateUnparsable(i, field) == to_date_or_none(CellOf(i, field)).t = "nat"

(***************************************************************************)
(* C1.  For every non-empty table convert_dataframe returns a              *)
(* ConversionResponse and never raises.                                    *)
(* Refuted: a row that passes enforce_row_quality and fails the schema     *)
(* (lane_origin unmapped, fuel surcharge above 100, negative transit days, *)
(* NaT) makes model_validate raise out of convert_dataframe.               *)
(***************************************************************************)
C1_NeverRaises == ~Raised

(***************************************************************************)
(* C2.  Every row of a returned response has rate_value >= 0 and non-empty *)
(* string lane_origin and lane_destination.                                *)
(* Refuted: the schema asks for a str and takes the empty string.          *)
(***************************************************************************)
NonEmptyStr(value) == value.t = "str" /\ Len(value.s) > 0

C2_AcceptedRowsWellFormed ==
  Returned =>
    \A k \in 1..Len(response.rows) :
      /\ response.rows[k]["rate_value"].t = "num"
      /\ response.rows[k]["rate_value"].v >= 0
      /\ NonEmptyStr(response.rows[k]["lane_origin"])
      /\ NonEmptyStr(response.rows[k]["lane_destination"])

(***************************************************************************)
(* C3.  Whenever convert_dataframe returns: rejected_rows + len(rows) is   *)
(* the number of input rows, rejected_rows is the number of rows that fail *)
(* enforce_row_quality (so an unmapped column adds to it only through a    *)
(* failed row check), and exactly rejected_rows warnings start with        *)
(* "Row rejected: ".                                                       *)
(***************************************************************************)
C3_RejectedRowsAccounting ==
  Returned =>
    /\ response.rejected_rows + Len(response.rows) = NumRows
    /\ response.rejected_rows = Cardinality({i \in RowIds : ~VerdictOf(i).ok})
    /\ Cardinality(WarningIds("Row rejected")) = response.rejected_rows

C3_Witness ==
  /\ Returned
  /\ response.rejected_rows >= 1
  /\ Len(response.rows) >= 1


(***************************************************************************)
(* C4.  build_column_mapping gives every column the confidence             *)
(* round(max(top-1 retrieval score, similarity to that field's name), 3)   *)
(* and records it (an evidence entry, and the field in column_map) exactly *)
(* when the confidence is >= 0.62; a column below 0.62 is no value of      *)
(* column_map and no source_column of the evidence.                        *)
(***************************************************************************)
ColumnIds == 1..Len(df.columns)

\* The top-1 field of a header and the claim's confidence for it.
TopField(h) == Top1Candidates[h][1].field

ClaimedConfidence ==
  [h \in HeaderPool |->
     Round3(ScoreMax(Top1Candidates[h][1].score,
                     Ratio(Lower(h), Lower(TopField(h).text))))]

EvidenceIds(column) ==
  {e \in 1..Len(mapping.evidence) : mapping.evidence[e].source_column = column}

C4_ThresholdDecidesRecording ==
  Mapped =>
    \A c \in ColumnIds :
      IF ClaimedConfidence[df.columns[c]] >= AcceptThreshold
      THEN /\ Cardinality(EvidenceIds(df.columns[c])) = 1
           /\ \A e \in EvidenceIds(df.columns[c]) :
                /\ mapping.evidence[e].confidence = ClaimedConfidence[df.columns[c]]
                /\ mapping.evidence[e].canonical_field = TopField(df.columns[c]).name
           /\ TopField(df.columns[c]).name \in DOMAIN mapping.column_map
      ELSE /\ EvidenceIds(df.columns[c]) = {}
           /\ \A f \in DOMAIN mapping.column_map : mapping.column_map[f] # df.columns[c]

C4_Witness ==
  /\ Mapped
  /\ \E c \in ColumnIds : EvidenceIds(df.columns[c]) # {}
  /\ \E c \in ColumnIds : ClaimedConfidence[df.columns[c]] < AcceptThreshold

(***************************************************************************)
(* C5.  When several columns are accepted for the same canonical field,    *)
(* column_map[field] is the one that comes last in input column order,     *)
(* whatever the confidences of the earlier ones.                           *)
(***************************************************************************)
AcceptedFor(field) ==
  {c \in ColumnIds : /\ TopField(df.columns[c]).name = field
                     /\ ClaimedConfidence[df.columns[c]] >= AcceptThreshold}

C5_LastColumnWins ==
  Mapped =>
    /\ DOMAIN mapping.column_map = {f \in FieldNames : AcceptedFor(f) # {}}
    /\ \A f \in DOMAIN mapping.column_map :
         mapping.column_map[f] = df.columns[SetMax(AcceptedFor(f))]

C5_Witness ==
  /\ Mapped
  /\ \E f \in DOMAIN mapping.column_map :
       \E c1, c2 \in AcceptedFor(f) :
         /\ c1 < c2
         /\ ClaimedConfidence[df.columns[c1]] > ClaimedConfidence[df.columns[c2]]
         /\ mapping.column_map[f] = df.columns[c2]

(***************************************************************************)
(* C6.  A row whose rate_value is missing (unmapped column, empty cell) or *)
(* not parsable as a number is rejected with the warning                   *)
(* "Row rejected: missing/non-numeric rate_value".                         *)
(* Refuted as worded: the warning the code gives is                        *)
(* "Row rejected: Missing rate_value".                                     *)
(***************************************************************************)
MissingRateRows == {i \in RowIds : RateMissing(i)}

C6_MissingRateWarningAsWorded ==
  Returned =>
    RejectedWith("missing/non-numeric rate_value") = Cardinality(MissingRateRows)

\* C6 as amended: every response convert_dataframe returns holds one warning
\* "Row rejected: Missing rate_value" for each row whose rate_value is missing
\* or not parsable as a number, and accepts none of these rows.
C6_MissingRateRejected ==
  Returned =>
    /\ RejectedWith("Missing rate_value") = Cardinality(MissingRateRows)
    /\ Len(response.rows) <= NumRows - Cardinality(MissingRateRows)

C6_Witness ==
  /\ Returned
  /\ \E i \in RowIds : CellOf(i, "rate_value").t = "nan"
  /\ \E i \in RowIds : CellOf(i, "rate_value").t = "str" /\ RateMissing(i)

(***************************************************************************)
(* C7.  A row with a valid non-negative rate_value whose effective_from    *)
(* (or effective_to) cell is non-empty and no date is rejected with        *)
(* "Row rejected: effective_from is invalid" (or "effective_to is          *)
(* invalid"); the not-a-date value is never carried into an accepted row   *)
(* and never reaches the inverted-range comparison.                        *)
(* Refuted: to_date_or_none turns such a cell into NaT, which has a year   *)
(* attribute, so the row passes the check of validators.py:38.             *)
(***************************************************************************)
C7_UnparsableDateRejected ==
  /\ \A i \in RowIds :
       (response.status # "pending" /\ RateFine(i)
          /\ DateUnparsable(i, "effective_from"))
         => (Returned /\ RejectedWith("effective_from is invalid") >= 1)
  /\ \A i \in RowIds :
       (response.status # "pending" /\ RateFine(i)
          /\ ~DateUnparsable(i, "effective_from") /\ DateUnparsable(i, "effective_to"))
         => (Returned /\ RejectedWith("effective_to is invalid") >= 1)
  /\ Returned =>
       \A k \in 1..Len(response.rows) :
         /\ response.rows[k]["effective_from"].t # "nat"
         /\ response.rows[k]["effective_to"].t # "nat"
  /\ Raised => response.error # "TypeError"

(***************************************************************************)
(* C8.  In every response convert_dataframe returns, every row whose       *)
(* parsed rate_value is below 0 is left out of rows and has exactly one    *)
(* warning "rate_value must be non-negative" (one rejected_rows each, by   *)
(* C3's count); the rows list is what the other rows alone give, and a     *)
(* rate_value of exactly 0 is not rejected by this check.                  *)
(***************************************************************************)
NegativeRateRows == {i \in RowIds : RateNegative(i)}

\* The input rows that pass enforce_row_quality, in input order.
PassingRows == SelectSeq([i \in RowIds |-> i], LAMBDA i : VerdictOf(i).ok)

C8_NegativeRateRejected ==
  Returned =>
    /\ RejectedWith("rate_value must be non-negative") = Cardinality(NegativeRateRows)
    /\ Len(response.rows) = Len(PassingRows)
    /\ \A k \in 1..Len(response.rows) :
         /\ response.rows[k] = CanonicalRateCardRow(TransformedRow(PassingRows[k]))
         /\ PassingRows[k] \notin NegativeRateRows
         /\ response.rows[k]["rate_value"].v >= 0

C8_Witness ==
  /\ Returned
  /\ NegativeRateRows # {}
  /\ \E i \in RowIds : RateFine(i) /\ RateOf(i).v = 0
  /\ \E k \in 1..Len(response.rows) : response.rows[k]["rate_value"].v = 0

(***************************************************************************)
(* C9.  In every response convert_dataframe returns, a row that passes the *)
(* rate checks and has two well-formed dates is rejected with              *)
(* "effective_from is after effective_to" exactly when effective_from is   *)
(* strictly later than effective_to; equal dates, or a single date, do not *)
(* give this rejection.                                                    *)
(***************************************************************************)
DateOf(i, field) == to_date_or_none(CellOf(i, field)).d

TwoDates(i) ==
  RateFine(i) /\ DateWellFormed(i, "effective_from") /\ DateWellFormed(i, "effective_to")

InvertedRows ==
  {i \in RowIds : TwoDates(i) /\ DateOf(i, "effective_from") > DateOf(i, "effective_to")}

C9_InvertedRangeRejected ==
  Returned =>
    RejectedWith("effective_from is after effective_to") = Cardinality(InvertedRows)

C9_Witness ==
  /\ Returned
  /\ InvertedRows # {}
  /\ Len(response.rows) >= 1
  /\ \E i \in RowIds :
       TwoDates(i) /\ DateOf(i, "effective_from") = DateOf(i, "effective_to")

(***************************************************************************)
(* C10.  Every response convert_dataframe returns starts with exactly one  *)
(* warning "Missing required canonical field mapping: <field>" for each of *)
(* lane_origin, lane_destination, rate_value absent from column_map, in    *)
(* that order, whatever the number of rows; no such warning follows, so    *)
(* they precede every "Row rejected" warning, and none names a mapped      *)
(* field.                                                                  *)
(***************************************************************************)
MappedFields ==
  {response.mapping_evidence[e].canonical_field : e \in 1..Len(response.mapping_evidence)}

MissingRequired ==
  SelectSeq(<<"lane_origin", "lane_destination", "rate_value">>,
            LAMBDA f : f \notin MappedFields)

C10_MissingRequiredWarnings ==
  Returned =>
    /\ Len(response.warnings) >= Len(MissingRequired)
    /\ \A k \in 1..Len(MissingRequired) :
         response.warnings[k] =
           [kind |-> "Missing required canonical field mapping",
            detail |-> MissingRequired[k]]
    /\ WarningIds("Missing required canonical field mapping")
         = 1..Len(MissingRequired)

C10_Witness ==
  /\ Returned
  /\ NumRows >= 2
  /\ Len(MissingRequired) >= 1
  /\ Len(MissingRequired) < 3
  /\ WarningIds("Row rejected") # {}

(***************************************************************************)
(* C11.  Whatever the reporting threshold, a response convert_dataframe    *)
(* returns ends with one "Low-confidence mapping" warning for every        *)
(* evidence entry whose confidence is below the threshold, in evidence     *)
(* order and naming its source column, field and confidence; no such       *)
(* warning stands before another kind of warning; and rows and             *)
(* rejected_rows are those of the same call with the threshold at 0.       *)
(***************************************************************************)
LowEvidence ==
  SelectSeq(response.mapping_evidence,
            LAMBDA ev : ev.confidence < settings.confidence_threshold)

SameOutcome(other) ==
  /\ other.status = "returned"
  /\ other.rows = response.rows
  /\ other.rejected_rows = response.rejected_rows

AdvisoryTail(low, n) ==
  /\ n >= 0
  /\ \A k \in 1..Len(low) :
       response.warnings[n + k] =
         [kind |-> "Low-confidence mapping",
          detail |-> <<low[k].source_column, low[k].canonical_field, low[k].confidence>>]
  /\ \A j \in 1..n : response.warnings[j].kind # "Low-confidence mapping"

C11_LowConfidenceAdvisory ==
  Returned =>
    /\ AdvisoryTail(LowEvidence, Len(response.warnings) - Len(LowEvidence))
    /\ \E lib \in Libs :
         SameOutcome(convert_dataframe(df, [confidence_threshold |-> 0], lib))

C11_Witness ==
  /\ Returned
  /\ Len(LowEvidence) >= 1
  /\ Len(response.rows) >= 1
  /\ WarningIds("Row rejected") # {}
  /\ settings.confidence_threshold # DefaultConfidenceThreshold

(***************************************************************************)
(* C12.  In every accepted row currency is "USD" when the currency field   *)
(* is not in column_map or the row's currency cell is empty (missing value *)
(* or empty string), and the cell's value otherwise; an empty currency     *)
(* cell never makes the conversion fail.                                   *)
(* Refuted: a missing cell is NaN, which is truthy, so line 51 keeps it    *)
(* and model_validate raises for a currency that is no str.                *)
(***************************************************************************)
CurrencyEmpty(i) ==
  \/ CellOf(i, "currency").t \in {"none", "nan"}
  \/ CellOf(i, "currency").t = "str" /\ Len(CellOf(i, "currency").s) = 0

WithUSD(row) == [row EXCEPT !["currency"] = USD]

\* Row i passes the row checks and fails the schema whatever its currency.
FailsBesideCurrency(i) ==
  VerdictOf(i).ok /\ \E lib \in Libs : ~ModelValid(WithUSD(TransformedRow(i)), lib)

C12_CurrencyDefaults ==
  /\ Returned =>
       /\ Len(response.rows) = Len(PassingRows)
       /\ \A k \in 1..Len(response.rows) :
            response.rows[k]["currency"] =
              IF CurrencyEmpty(PassingRows[k]) THEN USD
              ELSE CellOf(PassingRows[k], "currency")
  /\ Raised =>
       \/ response.error = "TypeError"
       \/ \E i \in RowIds : FailsBesideCurrency(i)

(***************************************************************************)
(* C13.  A column whose header equals a catalog field's name, compared     *)
(* case-insensitively, is recorded by build_column_mapping for that very   *)
(* field with confidence 1.0: it has exactly one evidence entry, and       *)
(* column_map[name] is that header, or a later column accepted for the     *)
(* same field (C5).                                                        *)
(***************************************************************************)
NamedField(column) ==
  {f \in 1..NumFields : Lower(column) = CANONICAL_FIELD_DEFS[f].text}

LaterFor(name, c) ==
  \E c2 \in ColumnIds : c2 > c /\ mapping.column_map[name] = df.columns[c2]

RecordedAs(c, name) ==
  /\ Cardinality(EvidenceIds(df.columns[c])) = 1
  /\ \A e \in EvidenceIds(df.columns[c]) :
       /\ mapping.evidence[e].canonical_field = name
       /\ mapping.evidence[e].confidence = 1000
  /\ name \in DOMAIN mapping.column_map
  /\ mapping.column_map[name] = df.columns[c] \/ LaterFor(name, c)

MappingCalls == {i \in 1..Len(log) : log[i].op = "build_column_mapping"}

C14_MappingDeterministic ==
  \A i, j \in MappingCalls :
    log[i].df.columns = log[j].df.columns =>
      /\ log[i].result.column_map = log[j].result.column_map
      /\ log[i].result.evidence = log[j].result.evidence

C14_Witness ==
  \E i, j \in MappingCalls :
    /\ i < j
    /\ log[i].df.columns = log[j].df.columns
    /\ \E k \in 1..Len(log) : i < k /\ k < j /\ log[k].df.columns # log[i].df.columns

(***************************************************************************)
(* C19.  At every point of every interleaving of the calls of two threads: *)
(* the catalog is the one rag.py defines; the locals of a call in flight   *)
(* are what the call alone gives for the columns and rows it has gone      *)
(* through; and every call that returned gave the result it gives alone.   *)
(***************************************************************************)
EmptyAcc(column_map) ==
  [rows |-> <<>>, rejected_rows |-> 0,
   warnings |-> validate_required_columns(column_map), raised |-> "no"]

AloneResults(op, table) ==
  IF op = "build_column_mapping"
  THEN {[status |-> "returned"] @@ build_column_mapping(table.columns)}
  ELSE {convert_dataframe(table, settings, lib) : lib \in Libs}

AloneMapped(frame) ==
  frame.mapped = build_column_mapping(SubSeq(frame.df.columns, 1, frame.k))

AloneConverted(frame) ==
  /\ frame.mapped = build_column_mapping(frame.df.columns)
  /\ \E lib \in Libs :
       frame.conv = ConvertRows(EmptyAcc(frame.mapped.column_map), frame.mapped.column_map,
                                frame.df.columns, SubSeq(frame.df.rows, 1, frame.k), lib)

C19_CallsIsolated ==
  /\ catalog = CANONICAL_FIELD_DEFS
  /\ \A t \in Threads :
       /\ calls[t].pc = "columns" => AloneMapped(calls[t])
       /\ calls[t].pc = "rows" => AloneConverted(calls[t])
  /\ \A i \in 1..Len(log) : log[i].result \in AloneResults(log[i].op, log[i].df)

C19_Witness ==
  /\ Len(log) >= 1
  /\ \E t, u \in Threads :
       /\ t # u
       /\ calls[t].pc = "rows" /\ calls[t].k >= 1
       /\ calls[u].pc = "rows" /\ calls[u].k >= 1
       /\ calls[t].df # calls[u].df

(***************************************************************************)
(* C15: whatever the provider answers (nothing, None targets, targets on   *)
(* fields that are not required or already mapped), the agent returns,     *)
(* improved_mapping agrees with the deterministic column_map on every key  *)
(* of the latter, every added key is one of lane_origin, lane_destination, *)
(* rate_value, and initial_mapping equals the deterministic column_map.    *)
(***************************************************************************)
AgentReturned == agent.status = "returned"

Deterministic == build_column_mapping(df.columns).column_map

Improved == agent.result.improved_mapping

AddedKeys == DOMAIN Improved \ DOMAIN agent.result.initial_mapping

C15_AgentOnlyFillsRequiredGaps ==
  /\ agent.status \in {"pending", "returned"}
  /\ AgentReturned =>
       /\ \A k \in DOMAIN Deterministic :
            k \in DOMAIN Improved /\ Improved[k] = Deterministic[k]
       /\ (DOMAIN Improved \ DOMAIN Deterministic)
            \subseteq {"lane_origin", "lane_destination", "rate_value"}
       /\ agent.result.initial_mapping = Deterministic

\* The provider's answer, item by item.
LlmMapping == MapHeadersOf(agent.provider, df.columns)

\* A provider that offers another header for a mapped field and a header for
\* a field that is not required.
C15_Witness ==
  /\ AgentReturned
  /\ agent.how = "given"
  /\ \E i \in 1..Len(LlmMapping) :
       /\ LlmMapping[i].target.t = "str"
       /\ LlmMapping[i].target.name \in DOMAIN Deterministic
       /\ LlmMapping[i].source # Deterministic[LlmMapping[i].target.name]
  /\ \E i \in 1..Len(LlmMapping) :
       /\ LlmMapping[i].target.t = "str"
       /\ LlmMapping[i].target.name = "currency"
       /\ "currency" \notin DOMAIN Deterministic

(***************************************************************************)
(* C16: for each required field missing from the deterministic mapping     *)
(* that the provider maps some header to, improved_mapping has the field   *)
(* and exactly one suggestion names the field, which names the adopted     *)
(* header and the provider too; there are as many suggestions as keys of   *)
(* improved_mapping that initial_mapping lacks, also when several headers  *)
(* are mapped to one missing field.                                        *)
(***************************************************************************)
MissingFields == {"lane_origin", "lane_destination", "rate_value"} \ DOMAIN Deterministic

OfferedAt(f) ==
  {i \in 1..Len(LlmMapping) :
     LlmMapping[i].target.t = "str" /\ LlmMapping[i].target.name = f}

SuggestionsOn(f) ==
  {k \in 1..Len(agent.result.suggestions) :
     agent.result.suggestions[k].issue.target = f}

C16_OneSuggestionPerAdoptedField ==
  AgentReturned =>
    /\ \A f \in MissingFields :
         OfferedAt(f) # {} =>
           /\ f \in DOMAIN Improved
           /\ Cardinality(SuggestionsOn(f)) = 1
           /\ \A k \in SuggestionsOn(f) :
                agent.result.suggestions[k] =
                  ImprovementSuggestion(Improved[f], f, agent.provider.provider_name)
    /\ Len(agent.result.suggestions) = Cardinality(AddedKeys)

\* Two headers offered for one missing required field.
C16_Witness ==
  /\ AgentReturned
  /\ \E f \in MissingFields :
       /\ Cardinality(OfferedAt(f)) = 2
       /\ f \in DOMAIN Improved
       /\ Len(agent.result.suggestions) = 1

(***************************************************************************)
(* C17: for the table with headers "From City", "To Port", "Price USD"     *)
(* and the provider that build_provider gives for provider="openai", the   *)
(* improved_mapping has lane_origin, lane_destination and rate_value.      *)
(***************************************************************************)
C17_TestTableAllRequired ==
  ( /\ AgentReturned
    /\ agent.how = "built"
    /\ agent.config = ProviderConfig(P_openai)
    /\ df.columns = TestColumns )
  => {"lane_origin", "lane_destination", "rate_value"} \subseteq DOMAIN Improved

(***************************************************************************)
(* C18: in both entry points that convert a file, a loaded table with zero *)
(* rows reaches the caller as a failure and convert_dataframe is not       *)
(* invoked on it; a file with an unsupported extension is rejected with    *)
(* UnsupportedFormatError before convert_dataframe is invoked.             *)
(***************************************************************************)
Answered == request.status = "answered"

Failed == request.outcome.kind \in {"HTTPException", "raised"}

ZeroRows == request.loaded.status = "loaded" /\ Len(request.loaded.df.rows) = 0

Unsupported ==
  LastPart(Lower(request.file.name)) \notin {E_csv, E_txt, E_xlsx, E_xlsm, E_xls, E_pdf}

C18_EmptyAndUnsupportedRejected ==
  Answered =>
    /\ ZeroRows => Failed /\ ~request.converted
    /\ Unsupported =>
         /\ request.loaded = LoadRaised("UnsupportedFormatError")
         /\ Failed
         /\ ~request.converted

(***************************************************************************)
(* C20: a job is created PENDING by the upload, and under any sequence of  *)
(* uploads and execute runs, repeated or concurrent on one job, its status *)
(* moves only from PENDING to PROCESSING and from PROCESSING to COMPLETED  *)
(* or FAILED: the stored status of a COMPLETED or FAILED job never changes *)
(* again, and every mark_processing, mark_completed and mark_failed of a   *)
(* run finds its job in the status the lifecycle gives it.                 *)
(***************************************************************************)
Lifecycle ==
  {<<"pending", "processing">>, <<"processing", "completed">>,
   <<"processing", "failed">>}

\* The stored status moves along the lifecycle; a run commits once, so the
\* store may skip PROCESSING.
StoredStep(j) ==
  /\ jobs[j] = Absent /\ jobs'[j] # Absent => jobs'[j].status = "pending"
  /\ jobs[j] # Absent /\ jobs'[j].status # jobs[j].status =>
       \/ <<jobs[j].status, jobs'[j].status>> \in Lifecycle
       \/ /\ jobs[j].status = "pending"
          /\ jobs'[j].status \in {"completed", "failed"}

\* The status a run's entity had before the step.
StatusBefore(w) ==
  IF runs[w].pc = "idle" THEN jobs[runs'[w].job_id].status
  ELSE runs[w].job.status

EntityStep(w) ==
  (runs'[w] # runs[w] /\ runs'[w].job # Absent
     /\ runs'[w].job.status # StatusBefore(w))
  => <<StatusBefore(w), runs'[w].job.status>> \in Lifecycle

C20_StatusLifecycle ==
  [][(\A j \in JobIds : StoredStep(j)) /\ (\A w \in Workers : EntityStep(w))]_vars

(***************************************************************************)
(* C24: build_provider gives the provider named as requested ("openai",    *)
(* "claude" or "gemini", in any case) only when the API key of that        *)
(* provider is set to a non-empty value; in every other case, an unknown   *)
(* name or a key set for another provider included, it gives the provider  *)
(* named "deterministic-fallback".                                         *)
(***************************************************************************)
Built == AgentReturned /\ agent.how = "built"

\* The key a provider name asks for, "none" for a name that is not known.
KeyOf(provider) ==
  IF provider \in {P_openai, P_OpenAI} THEN "OPENAI_API_KEY"
  ELSE IF provider = P_claude THEN "ANTHROPIC_API_KEY"
  ELSE IF provider = P_gemini THEN "GOOGLE_API_KEY"
  ELSE "none"

NameOf(provider) ==
  IF provider \in {P_openai, P_OpenAI} THEN "openai"
  ELSE IF provider = P_claude THEN "claude"
  ELSE IF provider = P_gemini THEN "gemini"
  ELSE "none"

KeySet(env, key) ==
  key \in DOMAIN env /\ env[key].t = "str" /\ Len(env[key].s) > 0

C24_ProviderNeedsItsKey ==
  Built =>
    IF KeySet(agent.env, KeyOf(agent.config.provider))
    THEN agent.provider.provider_name = NameOf(agent.config.provider)
    ELSE agent.provider.provider_name = "deterministic-fallback"

\* "claude" asked for with only the OpenAI key set: the fallback.
C24_Witness ==
  /\ Built
  /\ agent.config.provider = P_claude
  /\ KeySet(agent.env, "OPENAI_API_KEY")
  /\ ~KeySet(agent.env, "ANTHROPIC_API_KEY")
  /\ agent.provider.provider_name = "deterministic-fallback"

(***************************************************************************)
(* C26: retrieve_field_candidates(column_name, top_k) returns min(top_k,   *)
(* number of catalog fields) pairs, no field twice, by non-increasing      *)
(* score, the score of a field being the greatest similarity over its name *)
(* and its synonyms; fields of equal score come in catalog order, so the   *)
(* first of those tied at the top is the one declared first.               *)
(***************************************************************************)
Retrieved == candidates.status = "returned"

\* The similarities of the pool's headers to the name and the synonyms of
\* every catalog field, computed once.
PoolRatios ==
  [h \in RetrievePool |->
     [i \in 1..NumFields |->
        [j \in 1..(Len(CANONICAL_FIELD_DEFS[i].synonyms) + 1) |->
           Ratio(Strip(Lower(h)),
                 IF j = 1 THEN CANONICAL_FIELD_DEFS[i].text
                 ELSE CANONICAL_FIELD_DEFS[i].synonyms[j - 1])]]]

CatalogIndex(field) == CHOOSE i \in 1..NumFields : CANONICAL_FIELD_DEFS[i] = field

SameScore(x, y) == ~ScoreLess(x, y) /\ ~ScoreLess(y, x)

\* The greatest of the similarities of header h to field c.
BestRatio(h, c) ==
  PoolRatios[h][c][CHOOSE j \in DOMAIN PoolRatios[h][c] :
                     \A k \in DOMAIN PoolRatios[h][c] :
                       ~ScoreLess(PoolRatios[h][c][j], PoolRatios[h][c][k])]

\* Pair x ranks ahead of pair y: a greater score, or the same score and an
\* earlier place in the catalog.
Ahead(x, y) ==
  \/ ScoreLess(y.score, x.score)
  \/ SameScore(x.score, y.score) /\ CatalogIndex(x.field) < CatalogIndex(y.field)

\* The catalog fields a result leaves out, each with its score.
LeftOut(h, result) ==
  {[field |-> CANONICAL_FIELD_DEFS[c], score |-> BestRatio(h, c)] :
     c \in {c \in 1..NumFields :
              \A i \in 1..Len(result) : result[i].field # CANONICAL_FIELD_DEFS[c]}}

RankedAsClaimed(h, top_k, result) ==
  /\ Len(result) = (IF top_k < NumFields THEN top_k ELSE NumFields)
  /\ \A i \in 1..Len(result) :
       /\ \E c \in 1..NumFields : CANONICAL_FIELD_DEFS[c] = result[i].field
       /\ SameScore(result[i].score, BestRatio(h, CatalogIndex(result[i].field)))
  /\ \A i, j \in 1..Len(result) : i < j => Ahead(result[i], result[j])
  /\ \A i \in 1..Len(result) : \A y \in LeftOut(h, result) : Ahead(result[i], y)

C26_RankedByScoreThenCatalog ==
  Retrieved =>
    RankedAsClaimed(candidates.column_name, candidates.top_k, candidates.result)

\* "Po" is as close to lane_origin as to lane_destination: the field declared
\* first is the only one returned for top_k = 1.
C26_Witness ==
  /\ Retrieved
  /\ candidates.column_name = H_Po
  /\ candidates.top_k = 1
  /\ Len(candidates.result) = 1
  /\ candidates.result[1].field.name = "lane_origin"
  /\ SameScore(candidates.result[1].score, BestRatio(H_Po, 3))

(***************************************************************************)
(* C29: after build_column_mapping on distinct headers, every value of     *)
(* column_map is an input header, distinct fields map to distinct columns, *)
(* the last evidence entry of a mapped field names the column the field is *)
(* mapped to, every confidence lies between 0.62 and 1, the evidence is in *)
(* input column order, and len(column_map) <= len(evidence) <= number of   *)
(* columns.                                                                *)
(***************************************************************************)
\* Where a header stands among the input columns.
PlaceOf(column) == CHOOSE c \in 1..Len(df.columns) : df.columns[c] = column

EntriesOf(f) ==
  {e \in 1..Len(mapping.evidence) : mapping.evidence[e].canonical_field = f}

C29_MappingWellFormed ==
  (Mapped /\ Injective(df.columns)) =>
    /\ \A f \in DOMAIN mapping.column_map :
         /\ \E c \in 1..Len(df.columns) : df.columns[c] = mapping.column_map[f]
         /\ EntriesOf(f) # {}
         /\ mapping.evidence[SetMax(EntriesOf(f))].source_column
              = mapping.column_map[f]
    /\ \A f, g \in DOMAIN mapping.column_map :
         f # g => mapping.column_map[f] # mapping.column_map[g]
    /\ \A e \in 1..Len(mapping.evidence) :
         /\ mapping.evidence[e].confidence >= 620
         /\ mapping.evidence[e].confidence <= 1000
         /\ \E c \in 1..Len(df.columns) :
              df.columns[c] = mapping.evidence[e].source_column
    /\ \A d, e \in 1..Len(mapping.evidence) :
         d < e => PlaceOf(mapping.evidence[d].source_column)
                    < PlaceOf(mapping.evidence[e].source_column)
    /\ Cardinality(DOMAIN mapping.column_map) <= Len(mapping.evidence)
    /\ Len(mapping.evidence) <= Len(df.columns)

\* Two headers accepted for one field: two evidence entries, one key.
C29_Witness ==
  /\ Mapped
  /\ Injective(df.columns)
  /\ Len(mapping.evidence) = 2
  /\ Cardinality(DOMAIN mapping.column_map) = 1
  /\ mapping.evidence[1].source_column # mapping.evidence[2].source_column

\* The checks of enforce_row_quality, each judged on its own from the row
\* dict, in the order the specification lists them.
QualityChecks(row) ==
  << [reason |-> "Missing rate_value",
      fails |-> IsNone(Get(row, "rate_value"))],
     [reason |-> "rate_value is not numeric",
      fails |-> ~IsNone(Get(row, "rate_value")) /\ ~FloatOk(Get(row, "rate_value"))],
     [reason |-> "rate_value must be non-negative",
      fails |-> /\ ~IsNone(Get(row, "rate_value"))
                /\ FloatOk(Get(row, "rate_value"))
                /\ Negative(FloatOf(Get(row, "rate_value")))],
     [reason |-> "effective_from is invalid",
      fails |-> Get(row, "effective_from").t \notin {"none", "date", "nat"}],
     [reason |-> "effective_to is invalid",
      fails |-> Get(row, "effective_to").t \notin {"none", "date", "nat"}],
     [reason |-> "effective_from is after effective_to",
      fails |-> /\ Get(row, "effective_from").t = "date"
                /\ Get(row, "effective_to").t = "date"
                /\ Get(row, "effective_from").d > Get(row, "effective_to").d] >>

FailingChecks(row) == {k \in 1..6 : QualityChecks(row)[k].fails}

EarliestReason(row) ==
  IF FailingChecks(row) = {} THEN "None"
  ELSE QualityChecks(row)[CHOOSE k \in FailingChecks(row) :
                            \A m \in FailingChecks(row) : k <= m].reason

\* The input rows that break a check, in input order, and the details of the
\* "Row rejected" warnings, in the order of the response.
BreakingRows ==
  SelectSeq([i \in RowIds |-> i],
            LAMBDA i : FailingChecks(TransformedRow(i)) # {})

RejectionDetails ==
  LET ids == SelectSeq([j \in 1..Len(response.warnings) |-> j],
                       LAMBDA j : response.warnings[j].kind = "Row rejected")
  IN [k \in 1..Len(ids) |-> response.warnings[ids[k]].detail]

(***************************************************************************)
(* C25.  enforce_row_quality answers with the reason of the earliest       *)
(* failing check in the order missing rate, non-numeric rate, negative     *)
(* rate, effective_from invalid, effective_to invalid, inverted range, and *)
(* accepts a row that breaks none; a returned response carries exactly one *)
(* "Row rejected" warning per row that breaks a check, with that earliest  *)
(* reason, and these warnings follow the input row order.  A date is       *)
(* well-formed here as the function tests it (it has a year attribute).    *)
(***************************************************************************)
C25_EarliestCheckDecides ==
  /\ (quality.status = "returned" /\ quality.verdict.raised = "no") =>
       /\ quality.verdict.ok = (FailingChecks(quality.row) = {})
       /\ quality.verdict.reason = EarliestReason(quality.row)
  /\ Returned =>
       /\ Len(RejectionDetails) = Len(BreakingRows)
       /\ \A k \in 1..Len(BreakingRows) :
            RejectionDetails[k] = EarliestReason(TransformedRow(BreakingRows[k]))

\* Two rows are rejected for different reasons, the first of them breaking
\* two checks at once (a negative rate and an inverted range).
C25_Witness ==
  /\ Returned
  /\ NumRows = 2
  /\ Cardinality(FailingChecks(TransformedRow(1))) = 2
  /\ FailingChecks(TransformedRow(2)) # {}
  /\ EarliestReason(TransformedRow(1)) # EarliestReason(TransformedRow(2))
  /\ Len(RejectionDetails) = 2

TerminalStatuses == {"succeeded", "failed"}

\* What a frame of _poll_operation may look like.
PollWithinLimit ==
  /\ poll.pc # "idle" => poll.requests <= _MAX_POLL_ATTEMPTS
  /\ poll.pc = "polling" =>
       /\ poll.requests < _MAX_POLL_ATTEMPTS
       /\ poll.seen \cap TerminalStatuses = {}
  /\ poll.pc = "done" =>
       /\ poll.last = "succeeded" <=> poll.outcome.how = "returned"
       /\ poll.last = "failed" <=>
            poll.outcome = PollRaised("DocumentExtractionError", "analysis failed")
       /\ poll.outcome = PollRaised("DocumentExtractionError", "timed out") <=>
            /\ poll.requests = _MAX_POLL_ATTEMPTS
            /\ poll.last \notin TerminalStatuses \cup {"none"}
       /\ poll.last \in TerminalStatuses => poll.seen \cap TerminalStatuses = {poll.last}

(***************************************************************************)
(* C27.  _poll_operation sends at most 30 status requests and always ends: *)
(* it goes on polling only while no answer was "succeeded" or "failed",    *)
(* returns at the first "succeeded", raises DocumentExtractionError at the *)
(* first "failed", and raises the timeout error exactly when the 30th      *)
(* answer is still neither.                                                *)
(***************************************************************************)
C27_PollTerminates == []PollWithinLimit /\ <>(poll.pc = "done")

\* The 30th answer was still "running": the call has timed out.
C27_Witness ==
  /\ poll.pc = "done"
  /\ poll.requests = _MAX_POLL_ATTEMPTS
  /\ poll.last = "running"
  /\ poll.outcome = PollRaised("DocumentExtractionError", "timed out")

\* The extension of a file name, lower-cased: the text after the last dot of
\* a name that has one past its first character.
ExtensionOf(filename) ==
  IF \E i \in 2..Len(filename) : filename[i] = "."
  THEN LastPart(Lower(filename)) ELSE <<>>

SupportedExtensions == {<<"p", "d", "f">>, <<"x", "l", "s", "x">>}

(***************************************************************************)
(* C23.  A call of UploadDocumentUseCase.execute raises                    *)
(* UnsupportedFileFormatError exactly when the extension of the file name, *)
(* lower-cased, is neither pdf nor xlsx, and then no file is written, no   *)
(* job is saved and nothing else changes; a call that returns has written  *)
(* the file under its new job id and file name, has saved exactly that one *)
(* job, PENDING, and has started no run and stored no rate card.           *)
(***************************************************************************)
C23_UploadOutcome ==
  [][upload' # upload =>
       /\ (upload'.status = "raised" /\ upload'.type = "UnsupportedFileFormatError")
            <=> ExtensionOf(upload'.filename) \notin SupportedExtensions
       /\ ExtensionOf(upload'.filename) \notin SupportedExtensions =>
            UNCHANGED <<jobs, cards, disk, runs>>
       /\ upload'.status = "returned" =>
            /\ StoredFile(upload'.job_id, upload'.filename) \notin disk
            /\ disk' = disk \cup {StoredFile(upload'.job_id, upload'.filename)}
            /\ jobs[upload'.job_id] = Absent
            /\ jobs'[upload'.job_id].status = "pending"
            /\ jobs'[upload'.job_id].filename = upload'.filename
            /\ \A k \in JobIds \ {upload'.job_id} : jobs'[k] = jobs[k]
            /\ UNCHANGED <<cards, runs>>]_vars

\* An upload named r.PDF has returned: its file and its PENDING job are
\* stored, and no run has started.
C23_Witness ==
  /\ upload = UploadReturned(U_PDF, "job-1")
  /\ StoredFile("job-1", U_PDF) \in disk
  /\ jobs["job-1"].status = "pending"
  /\ jobs["job-2"] = Absent
  /\ \A w \in Workers : runs[w] = IdleFrame

\* Run w leaves execute in this step with the exception of a failed pipeline
\* stage, status update or commit.
PipelineRaises(w) ==
  /\ runs[w].pc = "failing"
  /\ runs'[w].pc = "done"
  /\ runs'[w].outcome = "raised"

(***************************************************************************)
(* C21.  When execute raises because the file read, the extraction, the    *)
(* mapping, the saving of the rate card, the final status update or the    *)
(* commit failed after the job was started, the stored job is FAILED with  *)
(* the failure's text as its error_message at the moment the exception     *)
(* leaves execute.                                                         *)
(* Refuted: _handle_pipeline_failure catches and logs a failure of its own *)
(* update_status or commit, so the exception propagates with the stored    *)
(* job left as it was.                                                     *)
(***************************************************************************)
C21_FailurePersisted ==
  [][\A w \in Workers :
       PipelineRaises(w) =>
         /\ jobs'[runs[w].job_id].status = "failed"
         /\ jobs'[runs[w].job_id].error_message = ErrorMessage(runs[w].exc)]_vars

\* The stored job j is COMPLETED and names a stored rate card of its own.
CompletedWithCard(j) ==
  jobs[j] # Absent /\ jobs[j].status = "completed" =>
    /\ jobs[j].rate_card_id # NoneV
    /\ \E card \in cards :
         Some(card.id) = jobs[j].rate_card_id /\ card.job_id = j

\* Run w returns its rate card in this step.
ExecuteReturns(w) ==
  /\ runs[w].pc = "saved"
  /\ runs'[w].pc = "done"
  /\ runs'[w].outcome = "returned"

(***************************************************************************)
(* C22.  When execute returns a RateCard, the stored job is COMPLETED with *)
(* that card's id as rate_card_id, and the card is stored and carries the  *)
(* job's id; and in every reachable state a stored COMPLETED job has a     *)
(* non-null rate_card_id naming a stored rate card of that job.            *)
(***************************************************************************)
C22_CompletedHasItsCard ==
  /\ [](\A j \in JobIds : CompletedWithCard(j))
  /\ [][\A w \in Workers :
          ExecuteReturns(w) =>
            /\ jobs'[runs[w].job_id].status = "completed"
            /\ jobs'[runs[w].job_id].rate_card_id = Some(runs'[w].rate_card.id)
            /\ runs'[w].rate_card \in cards'
            /\ runs'[w].rate_card.job_id = runs[w].job_id]_vars

\* A run has returned card-1, and the stored job-1 is COMPLETED with it.
C22_Witness ==
  /\ runs["w1"].pc = "done"
  /\ runs["w1"].outcome = "returned"
  /\ runs["w1"].rate_card = RateCard_create("card-1", "job-1")
  /\ jobs["job-1"].status = "completed"
  /\ jobs["job-1"].rate_card_id = Some("card-1")
  /\ RateCard_create("card-1", "job-1") \in cards

(***************************************************************************)
(* C30.  In every reachable state a stored FAILED job has a null           *)
(* rate_card_id, and no rate card carrying that job's id is stored.        *)
(* Refuted: mark_failed leaves rate_card_id as mark_completed set it, and  *)
(* the failure handler commits on the session that still holds the saved   *)
(* rate card, so a failing final update or commit stores a FAILED job with *)
(* a rate_card_id, and stores the card too.                                *)
(***************************************************************************)
C30_FailedHasNoCard ==
  \A j \in JobIds :
    jobs[j] # Absent /\ jobs[j].status = "failed" =>
      /\ jobs[j].rate_card_id = NoneV
      /\ \A card \in cards : card.job_id # j

\* execute is running, or has run, on the stored job j: a run was given j and
\* found it.
ExecuteRunOn(j) ==
  /\ jobs[j] # Absent
  /\ \E w \in Workers :
       /\ runs[w].pc # "idle"
       /\ runs[w].job_id = j
       /\ runs[w].exc.type # "JobNotFoundError"

StoredTerminal(j) ==
  jobs[j] # Absent /\ jobs[j].status \in {"completed", "failed"}

(***************************************************************************)
(* C28.  Every stored job on which execute is run eventually has a stored  *)
(* status of COMPLETED or FAILED, whatever update or commit fails on the   *)
(* way.                                                                    *)
(* Refuted: a failing update_status in _load_and_start_job raises outside  *)
(* the try block, and _handle_pipeline_failure swallows a failure of its   *)
(* own update or commit; in both cases the run is over and the stored job  *)
(* stays PENDING.                                                          *)
(***************************************************************************)
C28_EventuallyTerminal ==
  \A j \in JobIds : ExecuteRunOn(j) ~> StoredTerminal(j)

=============================================================================
